---- MODULE Spec2Model ----
(***************************************************************************)
(* Model of the WAGO 750 Modbus driver (package wg750xxx).                 *)
(*                                                                         *)
(* Part 1: ModbusConnection (modbus/state.py): the cached process image,   *)
(*         the region refreshes, the writes, the auto_reconnect retry      *)
(*         wrapper and the continuous-update worker thread.                *)
(* Part 2: Hub (hub.py): connect, module discovery and the typed channels  *)
(*         each module gets from ModbusChannel.create_channels.            *)
(* Part 3: the DALI master (modules/dali): the command methods, channel    *)
(*         creation and the transmit handshake with the gateway.           *)
(* Part 4: the counter module (modules/counter), the typed ModbusChannels  *)
(*         and the Words conversions (modbus/registers.py).                *)
(*                                                                         *)
(* Arrays are functions on 0..n-1, as the Python lists they model.         *)
(***************************************************************************)
EXTENDS Integers, Naturals, Sequences, FiniteSets, TLC

VARIABLES
    wire,           \* the controller's coil and holding tables: table -> (address -> cell)
    bits_in_state,  \* ModbusConnection.bits_in_state
    state,          \* ModbusConnection.state: the cached arrays
    sock,           \* the client's socket: "open" or "closed"
    pc,             \* per thread: where it is in its current call
    op,             \* per thread: the API call in progress
    ref,            \* per thread: the arguments of the update_*_state call in progress
    att,            \* per thread: iteration of auto_reconnect's loop around update_*_state
    watt,           \* per thread: iteration of auto_reconnect's loop around write_*
    lvl,            \* per thread: which wrapper caught the last broken pipe
    exc,            \* per thread: the exception the client raised last, or "none"
    req,            \* per thread: the request it has in flight on the client
    buf,            \* per thread: the response of its last read request
    cycled,         \* per thread: reconnect() closed and reopened the socket since the last broken pipe
    stale,          \* per thread: a write reached the table after the response in buf was taken
    _running,       \* ModbusConnection._running
    pidx,           \* the worker's position in the tick: index into RegionOrder
    clock,          \* time since stop_continuous_update set the flag, in min(intervals)
    _on_change_callback,    \* WagoChannel._on_change_callback of the channel on discrete input 0: set or None
    notified,       \* the values the listener of that channel was called with
    fieldLive,      \* the field behind the input tables changes between reads
    regs,           \* the controller's configuration registers: widths and module description
    hpc,            \* the Hub: "none" (no hub), "new" (constructed), "connected"
    modules,        \* Hub.modules
    _process_state_width,       \* Hub._process_state_width
    _next_address,              \* Hub._next_address
    is_initialized,             \* Hub.is_initialized
    is_module_discovery_done,   \* Hub.is_module_discovery_done
    reset,          \* the reset argument of the last _get_connected_modules_from_controller
    register_values,    \* its local list: the identification words it has read
    vpos,           \* its position in "for value in register_values", from 1
    hcall,          \* the Hub call whose discovery loop is running, or "none"
    herr,           \* the exception the last Hub call raised, or "none"
    modules_before, \* self.modules as the discovery under way found it
    dpc,            \* the DALI caller: where it is in its call
    dcall,          \* the DALI method called and its argument
    todo,           \* the messages the method has yet to hand to write, the current one first
    cycles,         \* the messages of this call whose handshake is complete
    responses,      \* the DaliInputMessages write has returned in this call
    holding641,     \* the DALI module's holding words: transmit_request, the message
    input641,       \* the DALI module's input words: transmit_ack, the response bytes
    present,        \* the short addresses of the ballasts on the DALI bus
    channel,        \* Wg750DaliMaster.channel: the short addresses of its DaliChannels
    last,           \* how the previous DALI call ended
    cpc,            \* the counter's caller: where it is in its call
    ccall,          \* the Counter32Bit method called and its argument
    cexc,           \* the exception the last counter call raised, or "none"
    input_register, \* CounterCommunicationRegister.input_register, words 1 and 2
    counterHolding, \* the counter module's holding words on the wire: control, value
    counterInput,   \* the counter module's input words on the wire: status, value
    ret,            \* what the API caller's last channel read returned, or None
    fieldWords,     \* the words a cell of the input table can show at a read
    _words,         \* Words._words of the Words a conversion is applied to
    intval,         \* the int the conversion returned, as digits, or NoValue
    ident,          \* the identification word handed to ModuleIdentifier
    descriptor,     \* the ModuleSpec it was decoded to: a list of none or one
    _update_thread, \* ModbusConnection._update_thread: "none", or the thread it refers to
    second,         \* a second worker thread, started while the first was alive: "off" or "run"
    now,            \* time.time(), in units of the shortest interval
    current_time,   \* _continuous_update's current_time: the time its tick began
    _last_updates,      \* ModbusConnection._last_updates
    _update_intervals,  \* ModbusConnection._update_intervals
    lock,           \* CounterCommunicationRegister.lock: "method", or the bool assigned over it
    ballast,        \* the ballast at ShortAddress: its group membership word, its address bytes
    subset          \* a Words taken as a slice of _words: where its cells are

connVars == <<wire, bits_in_state, state, sock, pc, op, ref, att, watt,
              lvl, exc, req, buf, cycled, stale, _running, pidx, clock,
              _on_change_callback, notified, fieldLive>>

hubVars == <<regs, hpc, modules, _process_state_width, _next_address,
             is_initialized, is_module_discovery_done, reset, register_values,
             vpos, hcall, herr, modules_before>>

daliVars == <<dpc, dcall, todo, cycles, responses, holding641, input641,
              present, channel, last>>

counterVars == <<cpc, ccall, cexc, input_register, counterHolding, counterInput>>

\* the variables of Part 4
channelVars == <<ret, fieldWords>>

pureVars == <<_words, intval, ident, descriptor, subset>>

threadObjVars == <<_update_thread, second>>

timeVars == <<now, current_time, _last_updates, _update_intervals>>

\* attributes of the module objects
fieldVars == <<lock, ballast>>

moduleVars == <<counterVars, channelVars, pureVars, threadObjVars, timeVars,
                fieldVars>>

vars == <<connVars, hubVars, daliVars, moduleVars>>

\* what no step of the counter's calls changes
exceptCounter == <<connVars, hubVars, daliVars, channelVars, pureVars, threadObjVars,
                   timeVars, fieldVars>>

\* what a conversion leaves alone
exceptPure == <<connVars, hubVars, daliVars, counterVars, channelVars, threadObjVars,
                timeVars, fieldVars>>

\* what no step of a ModbusConnection call changes
fixedVars == <<bits_in_state, fieldLive, clock, _on_change_callback, notified,
               hubVars, daliVars, moduleVars>>

-----------------------------------------------------------------------------
(* Bounds of the model *)

\* coils and holding registers in the process image
OutCells == 2
\* discrete inputs and input registers in the process image
InCells == 1

(* Program constants *)

\* the wire base address of the holding and coil spaces, 0x0200
OutputBase == 512
\* auto_reconnect(func, retries=3)
Retries == 3
\* bits per register: bits_in_state[...] // 16
WordBits == 16

None == -1
NoReq == [fn |-> "none"]
NoOp == [kind |-> "none"]
NoRef == [space |-> "none"]

Threads == {"api", "poll"}
Spaces == {"input", "holding", "discrete", "coil"}
\* the values a register takes in the model: both ends of 0..65535
WordVals == {0, 65535}

-----------------------------------------------------------------------------
(* registers.py: Words and Bits *)

\* np.array(words, dtype=np.uint16)
U16(x) == x % 65536

\* Words(words): every cell stored as uint16
WordsOf(vals) == [i \in DOMAIN vals |-> U16(vals[i])]

\* Words(size=n), Bits(size=n): an empty array padded with zeros
ZeroWords(n) == [i \in 0..(n - 1) |-> 0]
ZeroBits(n) == [i \in 0..(n - 1) |-> FALSE]

\* Bits(bits, size): padded with False or truncated to size; size 0 means
\* as many as were given
BitsOf(vals, size) ==
    LET n == IF size = 0 THEN Cardinality(DOMAIN vals) ELSE size
    IN [i \in 0..(n - 1) |-> IF i \in DOMAIN vals THEN vals[i] ELSE FALSE]

\* the cells a slice a:b of an array has: the slice ends where the array does
SliceCells(arr, a, b) == Cardinality({i \in DOMAIN arr : a <= i /\ i < b})

\* numpy takes the values for the slice: as many as it has cells, or one
\* value, which goes into every cell there is
Assignable(arr, a, b, vals) ==
    Cardinality(DOMAIN vals) = SliceCells(arr, a, b) \/ Cardinality(DOMAIN vals) = 1

\* the slice assignment of a Python list: the cells a:b are taken out and
\* the values put in their place, however many they are
SetSliceAsList(arr, a, b, vals) ==
    LET n == Cardinality(DOMAIN arr)
        k == Cardinality(DOMAIN vals)
        lo == IF a < n THEN a ELSE n
        hi == IF b < lo THEN lo ELSE IF b < n THEN b ELSE n
    IN [i \in 0..(lo + k + (n - hi) - 1) |->
          IF i < lo THEN arr[i]
          ELSE IF i < lo + k THEN vals[i - lo]
          ELSE arr[i - lo - k + hi]]

\* __setitem__(slice(a, b), value): self._words[a:b] = value
SetSlice(arr, a, b, vals) ==
    [i \in DOMAIN arr |->
        IF a <= i /\ i < b
        THEN IF Cardinality(DOMAIN vals) = 1 THEN vals[0]
             ELSE IF (i - a) \in DOMAIN vals THEN vals[i - a] ELSE arr[i]
        ELSE arr[i]]

-----------------------------------------------------------------------------
(* The controller behind the client: one table per Modbus space.  A cell   *)
(* is named by its wire address; a read returns the cells it names and a   *)
(* write changes the cell it names.  The coil and holding tables hold the  *)
(* output image, whose cells start at 0x0200, and keep what was written    *)
(* there; a request that names no cell of the table finds zeros and        *)
(* changes nothing.  The discrete and input tables show the field, which   *)
(* may have any value at each read.                                        *)

IsBitSpace(s) == s \in {"discrete", "coil"}
IsOutputSpace(s) == s \in {"holding", "coil"}

WireAt(table, a) ==
    IF a \in DOMAIN wire[table] THEN wire[table][a]
    ELSE IF IsBitSpace(table) THEN FALSE ELSE 0

\* a bit response carries whole bytes: count rounded up to a multiple of 8
ResponseCells(table, count) ==
    IF IsBitSpace(table) THEN ((count + 7) \div 8) * 8 ELSE count

\* client.read_coils / read_holding_registers(address, count): .bits, .registers
WireRead(table, address, count) ==
    [i \in 0..(ResponseCells(table, count) - 1) |->
        IF i < count THEN WireAt(table, address + i)
        ELSE IF IsBitSpace(table) THEN FALSE ELSE 0]

\* client.read_discrete_inputs / read_input_registers(address, count): the field
FieldRead(table, count, field) ==
    [i \in 0..(ResponseCells(table, count) - 1) |->
        IF i < count THEN field[i]
        ELSE IF IsBitSpace(table) THEN FALSE ELSE 0]

\* the values a cell of the field can show at a read
FieldVals(table) ==
    IF fieldLive
    THEN (IF IsBitSpace(table) THEN BOOLEAN ELSE fieldWords)
    ELSE (IF IsBitSpace(table) THEN {FALSE} ELSE {0})

\* the responses the controller can give to a read request
Responses(r) ==
    IF IsOutputSpace(r.table)
    THEN {WireRead(r.table, r.address, r.count)}
    ELSE {FieldRead(r.table, r.count, f) : f \in [0..(r.count - 1) -> FieldVals(r.table)]}

\* client.write_coil / write_registers(address, values)
WireWrite(w, table, address, vals) ==
    [w EXCEPT ![table] =
        [a \in DOMAIN w[table] |->
            IF (a - address) \in DOMAIN vals THEN vals[a - address] ELSE w[table][a]]]

-----------------------------------------------------------------------------
(* ModbusConnection: the region refreshes *)

\* the wire base each update_*_state adds to its address
BaseOf(space) == IF space \in {"holding", "coil"} THEN OutputBase ELSE 0

\* cells of a space in the cache: bits, or bits // 16 words
CellsOf(bits, space) ==
    IF IsBitSpace(space) THEN bits[space] ELSE bits[space] \div WordBits

\* the address an update_*_state reads from: None means the space's base
RefreshWireAddress(space, address) ==
    IF address = None THEN BaseOf(space) ELSE address + BaseOf(space)

\* the width an update_*_state reads: None means up to the end of the space
RefreshWidth(bits, space, address, width) ==
    IF width = None
    THEN (CellsOf(bits, space) + BaseOf(space)) - RefreshWireAddress(space, address)
    ELSE width

\* the request an update_*_state sends
RefreshRequest(r) ==
    [fn |-> "read_" \o r.space,
     table |-> r.space,
     address |-> RefreshWireAddress(r.space, r.address),
     count |-> RefreshWidth(bits_in_state, r.space, r.address, r.width)]

\* what the response is turned into: Words(registers), Bits(bits, size=width)
RefreshDecode(space, vals, width) ==
    IF IsBitSpace(space) THEN BitsOf(vals, width) ELSE WordsOf(vals)

\* a store that would put the values at the start of the array
RefreshStoreFromStart(st, space, wireAddress, width, vals) ==
    [st EXCEPT ![space] = SetSlice(st[space], 0, width, vals)]

\* self.state[space][address - base : address + width - base] = values
RefreshStore(st, space, wireAddress, width, vals) ==
    [st EXCEPT ![space] =
        SetSlice(st[space], wireAddress - BaseOf(space),
                 wireAddress + width - BaseOf(space), vals)]

\* one update_<space>_state() over the whole space, given its response
RefreshWhole(st, bits, space, response) ==
    RefreshStore(st, space, BaseOf(space), CellsOf(bits, space),
                 RefreshDecode(space, response, CellsOf(bits, space)))

WholeRequest(bits, space) ==
    [fn |-> "read_" \o space, table |-> space, address |-> BaseOf(space),
     count |-> CellsOf(bits, space)]

\* update_state(): input, holding, discrete, coil; the caches it can end with
update_state(st, bits) ==
    {RefreshWhole(RefreshWhole(RefreshWhole(RefreshWhole(st, bits, "input", ri),
                                            bits, "holding", rh),
                               bits, "discrete", rd),
                  bits, "coil", rc) :
        ri \in Responses(WholeRequest(bits, "input")),
        rh \in Responses(WholeRequest(bits, "holding")),
        rd \in Responses(WholeRequest(bits, "discrete")),
        rc \in Responses(WholeRequest(bits, "coil"))}

\* update_state(): update_input_state, update_holding_state,
\* update_discrete_state, update_coil_state, one call after the other
UpdateOrder == <<"input", "holding", "discrete", "coil">>

-----------------------------------------------------------------------------
(* ModbusConnection: the writes *)

\* the request write_coil / write_registers sends: the address as it was passed
WriteRequest(o) ==
    [fn |-> o.kind,
     table |-> o.space,
     address |-> o.addr,
     vals |-> [i \in {0} |-> o.val]]

\* the refresh a write ends with: update_coil_state() / update_holding_state()
WriteRefresh(o) == [space |-> o.space, address |-> None, width |-> None]

-----------------------------------------------------------------------------
(* reconnect(): the client calls it makes, and the socket after them *)

\* a reconnect() that would leave an open socket as it is
ReconnectCallsKeepOpen(s) ==
    IF s # "open" THEN <<"connect">> ELSE <<>>

\* if not is_socket_open(): connect()  else: close(); connect()
ReconnectCalls(s) ==
    IF s # "open" THEN <<"connect">> ELSE <<"close", "connect">>

\* the socket after one client call
SockCall(s, c) == IF c = "close" THEN "closed" ELSE "open"

SockAfter(s, calls) ==
    IF calls = <<>> THEN s ELSE SockCall(s, calls[Len(calls)])

\* the calls connected a socket that was closed just before
ClosedThenOpened(s, calls) ==
    \E j \in 1..Len(calls) :
        /\ calls[j] = "connect"
        /\ IF j = 1 THEN s = "closed" ELSE calls[j - 1] = "close"

\* exceptions a client call can raise: a broken pipe, a protocol-level error
Exceptions == {"BrokenPipeError", "ModbusIOException"}

\* a wrapper that would catch every exception
CaughtAny(e) == TRUE

\* auto_reconnect: except BrokenPipeError
Caught(e) == e = "BrokenPipeError"

\* a loop that would allow one more iteration
HasRetryOneMore(n) == n <= Retries

\* auto_reconnect: for _ in range(retries) has another iteration
HasRetry(n) == n < Retries

-----------------------------------------------------------------------------
(* Initial state: a constructed ModbusConnection, no worker thread *)

ImageBits ==
    [input |-> WordBits * InCells, holding |-> WordBits * OutCells,
     discrete |-> InCells, coil |-> OutCells]

\* the cells of the coil and holding tables: the output image, from 0x0200
OutAddrs == OutputBase..(OutputBase + OutCells - 1)

\* a table whose every cell shows v
ImageTable(v) == [a \in OutAddrs |-> v]

ZeroState(bits) ==
    [input |-> ZeroWords(CellsOf(bits, "input")),
     holding |-> ZeroWords(CellsOf(bits, "holding")),
     discrete |-> ZeroBits(CellsOf(bits, "discrete")),
     coil |-> ZeroBits(CellsOf(bits, "coil"))]

\* no DALI call in progress, no message in the holding words
NoCall == [method |-> "none"]
NoMessage == [command_code |-> None]

\* the DALI master at rest: nothing requested, nothing acknowledged
DaliIdle ==
    /\ dpc = "idle"
    /\ dcall = NoCall
    /\ todo = <<>>
    /\ cycles = <<>>
    /\ responses = <<>>
    /\ holding641 = [transmit_request |-> FALSE, message |-> NoMessage]
    /\ input641 = [transmit_ack |-> FALSE, response |-> <<0, 0, 0, 0>>]
    /\ channel = <<>>
    /\ last = "none"

\* the counter at rest: nothing set, nothing counted
CounterIdle ==
    /\ cpc = "idle"
    /\ ccall = NoCall
    /\ cexc = "none"
    /\ input_register = <<0, 0>>
    /\ counterHolding = <<0, 0, 0>>
    /\ counterInput = <<0, 0, 0>>

\* no channel read has returned
ChannelsIdle == ret = None

\* no conversion has returned: -1 is no digit
NoValue == <<None>>

\* no slice taken
NoSubset == [base |-> "none", lo |-> 0, hi |-> 0, cells |-> <<>>]

\* no Words at hand
NoWords == _words = <<>> /\ intval = NoValue /\ subset = NoSubset

\* no identification word decoded
NoIdent == ident = 0 /\ descriptor = <<>>

\* self._update_thread = None, no thread started
NoThread == _update_thread = "none" /\ second = "off"

\* __init__: every interval 1.0, every last update 0.0
\* a ballast in no group, its address bytes zero
NoBallast == [groups |-> 0, address |-> <<0, 0, 0>>]

\* the attributes as the classes define them
FieldsIdle == lock = "method"

DefaultTimes ==
    /\ now = 0
    /\ current_time = 0
    /\ _last_updates = [r \in Spaces |-> 0]
    /\ _update_intervals = [r \in Spaces |-> 1]

ModulesIdle ==
    CounterIdle /\ ChannelsIdle /\ NoWords /\ NoIdent /\ NoThread /\ DefaultTimes
    /\ FieldsIdle

ThreadsIdle ==
    /\ pc = [t \in Threads |-> IF t = "api" THEN "idle" ELSE "off"]
    /\ op = [t \in Threads |-> NoOp]
    /\ ref = [t \in Threads |-> NoRef]
    /\ att = [t \in Threads |-> 0]
    /\ watt = [t \in Threads |-> 0]
    /\ lvl = [t \in Threads |-> "none"]
    /\ exc = [t \in Threads |-> "none"]
    /\ req = [t \in Threads |-> NoReq]
    /\ buf = [t \in Threads |-> <<>>]
    /\ cycled = [t \in Threads |-> TRUE]
    /\ stale = [t \in Threads |-> FALSE]
    /\ _running = FALSE
    /\ pidx = 0
    /\ clock = 0
    /\ _on_change_callback = FALSE
    /\ notified = <<>>
    /\ DaliIdle
    /\ ModulesIdle

ZeroWidth == [input |-> 0, holding |-> 0, discrete |-> 0, coil |-> 0]

\* no Hub: the connection was constructed on its own
NoHub ==
    /\ regs = <<>>
    /\ hpc = "none"
    /\ modules = <<>>
    /\ _process_state_width = ZeroWidth
    /\ _next_address = ZeroWidth
    /\ is_initialized = FALSE
    /\ is_module_discovery_done = FALSE
    /\ reset = TRUE
    /\ register_values = <<>>
    /\ vpos = 0
    /\ hcall = "none"
    /\ herr = "none"
    /\ modules_before = <<>>

InitConn ==
    /\ \E on \in BOOLEAN :
          wire = [holding |-> ImageTable(IF on THEN 65535 ELSE 0),
                  coil |-> ImageTable(on)]
    /\ bits_in_state = ImageBits
    /\ state = ZeroState(ImageBits)
    /\ sock = "open"
    /\ fieldLive = TRUE
    /\ ThreadsIdle
    /\ NoHub
    /\ present = {}
    /\ fieldWords = WordVals
    /\ ballast = NoBallast

-----------------------------------------------------------------------------
(* The API caller's entry points *)

\* Coil.write(value) -> write_coil(address, value)
CallWriteCoil(a, v) ==
    /\ pc["api"] = "idle"
    /\ op' = [op EXCEPT !["api"] = [kind |-> "write_coil", space |-> "coil",
                                    addr |-> a, val |-> v]]
    /\ watt' = [watt EXCEPT !["api"] = 1]
    /\ att' = [att EXCEPT !["api"] = 0]
    /\ pc' = [pc EXCEPT !["api"] = "wsend"]
    /\ UNCHANGED <<wire, state, sock, ref, lvl, exc, req, buf, cycled, stale,
                   _running, pidx, fixedVars>>

\* Holding.write(value) -> write_registers(address, Words([value]))
CallWriteRegisters(a, v) ==
    /\ pc["api"] = "idle"
    /\ op' = [op EXCEPT !["api"] = [kind |-> "write_registers", space |-> "holding",
                                    addr |-> a, val |-> U16(v)]]
    /\ watt' = [watt EXCEPT !["api"] = 1]
    /\ att' = [att EXCEPT !["api"] = 0]
    /\ pc' = [pc EXCEPT !["api"] = "wsend"]
    /\ UNCHANGED <<wire, state, sock, ref, lvl, exc, req, buf, cycled, stale,
                   _running, pidx, fixedVars>>

\* update_<space>_state(address, width), also reached by read_*(address, update=True)
CallUpdate(space, a, w) ==
    /\ pc["api"] = "idle"
    /\ op' = [op EXCEPT !["api"] = [kind |-> "update", space |-> space,
                                    addr |-> a, val |-> w]]
    /\ ref' = [ref EXCEPT !["api"] = [space |-> space, address |-> a, width |-> w]]
    /\ watt' = [watt EXCEPT !["api"] = 0]
    /\ att' = [att EXCEPT !["api"] = 1]
    /\ pc' = [pc EXCEPT !["api"] = "rsend"]
    /\ UNCHANGED <<wire, state, sock, lvl, exc, req, buf, cycled, stale,
                   _running, pidx, fixedVars>>

\* the call has returned or raised; the caller goes on
\* update_state(): the first of its four calls
CallUpdateState ==
    /\ pc["api"] = "idle"
    /\ op' = [op EXCEPT !["api"] = [kind |-> "update_state", idx |-> 1]]
    /\ ref' = [ref EXCEPT !["api"] =
                 [space |-> UpdateOrder[1], address |-> None, width |-> None]]
    /\ watt' = [watt EXCEPT !["api"] = 0]
    /\ att' = [att EXCEPT !["api"] = 1]
    /\ pc' = [pc EXCEPT !["api"] = "rsend"]
    /\ UNCHANGED <<wire, state, sock, lvl, exc, req, buf, cycled, stale,
                   _running, pidx, fixedVars>>

\* update_state(): the next of its calls, or the return after the last
UpdateNext ==
    /\ pc["api"] = "unext"
    /\ IF op["api"].idx < Len(UpdateOrder)
       THEN /\ op' = [op EXCEPT !["api"].idx = @ + 1]
            /\ ref' = [ref EXCEPT !["api"] =
                         [space |-> UpdateOrder[op["api"].idx + 1],
                          address |-> None, width |-> None]]
            /\ att' = [att EXCEPT !["api"] = 1]
            /\ pc' = [pc EXCEPT !["api"] = "rsend"]
       ELSE /\ pc' = [pc EXCEPT !["api"] = "done"]
            /\ UNCHANGED <<op, ref, att>>
    /\ UNCHANGED <<wire, state, sock, watt, lvl, exc, req, buf, cycled, stale,
                   _running, pidx, fixedVars>>

Return ==
    /\ pc["api"] \in {"done", "error"}
    /\ pc' = [pc EXCEPT !["api"] = "idle"]
    /\ op' = [op EXCEPT !["api"] = NoOp]
    /\ ref' = [ref EXCEPT !["api"] = NoRef]
    /\ att' = [att EXCEPT !["api"] = 0]
    /\ watt' = [watt EXCEPT !["api"] = 0]
    /\ lvl' = [lvl EXCEPT !["api"] = "none"]
    /\ exc' = [exc EXCEPT !["api"] = "none"]
    /\ buf' = [buf EXCEPT !["api"] = <<>>]
    /\ cycled' = [cycled EXCEPT !["api"] = TRUE]
    /\ UNCHANGED <<wire, state, sock, req, stale, _running, pidx, fixedVars>>

-----------------------------------------------------------------------------
(* Steps of a call, shared by the API caller and the worker thread *)

\* a worker whose except clause would let the exception through
AfterErrorPropagates(t) == "error"

\* where a thread goes when an exception leaves the wrapper
AfterError(t) == IF t = "poll" THEN "pause" ELSE "error"

\* write_*: self.modbus_tcp_client.write_*(address, value) goes out
WriteSend(t) ==
    /\ pc[t] = "wsend"
    /\ req' = [req EXCEPT ![t] = WriteRequest(op[t])]
    /\ pc' = [pc EXCEPT ![t] = "wwait"]
    /\ UNCHANGED <<wire, state, sock, op, ref, att, watt, lvl, exc, buf,
                   cycled, stale, _running, pidx, fixedVars>>

\* write_*: the client raises; auto_reconnect catches a broken pipe, any
\* other exception leaves the wrapper at once
WriteFault(t) ==
    /\ pc[t] = "wsend"
    /\ \E e \in Exceptions :
          /\ exc' = [exc EXCEPT ![t] = e]
          /\ IF Caught(e)
             THEN /\ \E s \in {"open", "closed"} : sock' = s
                  /\ lvl' = [lvl EXCEPT ![t] = "outer"]
                  /\ cycled' = [cycled EXCEPT ![t] = FALSE]
                  /\ pc' = [pc EXCEPT ![t] = "reconnect"]
             ELSE /\ pc' = [pc EXCEPT ![t] = AfterError(t)]
                  /\ UNCHANGED <<sock, lvl, cycled>>
    /\ UNCHANGED <<wire, state, op, ref, att, watt, req, buf, stale, _running,
                   pidx, fixedVars>>

\* write_*: the controller has taken the write; self.update_*_state() is entered
WriteRecv(t) ==
    /\ pc[t] = "wwait"
    /\ wire' = WireWrite(wire, req[t].table, req[t].address, req[t].vals)
    /\ req' = [req EXCEPT ![t] = NoReq]
    /\ ref' = [ref EXCEPT ![t] = WriteRefresh(op[t])]
    /\ att' = [att EXCEPT ![t] = 1]
    /\ pc' = [pc EXCEPT ![t] = "rsend"]
    /\ stale' = [u \in Threads |->
                    IF u # t /\ pc[u] = "rassign" /\ ref[u].space = req[t].table
                    THEN TRUE ELSE stale[u]]
    /\ UNCHANGED <<state, sock, op, watt, lvl, exc, buf, cycled, _running,
                   pidx, fixedVars>>

\* update_*_state: self.modbus_tcp_client.read_*(address, count=width) goes out
RefreshSend(t) ==
    /\ pc[t] = "rsend"
    /\ req' = [req EXCEPT ![t] = RefreshRequest(ref[t])]
    /\ pc' = [pc EXCEPT ![t] = "rwait"]
    /\ UNCHANGED <<wire, state, sock, op, ref, att, watt, lvl, exc, buf,
                   cycled, stale, _running, pidx, fixedVars>>

\* update_*_state: the client raises; auto_reconnect catches a broken pipe,
\* any other exception leaves the wrapper at once
RefreshFault(t) ==
    /\ pc[t] = "rsend"
    /\ \E e \in Exceptions :
          /\ exc' = [exc EXCEPT ![t] = e]
          /\ IF Caught(e)
             THEN /\ \E s \in {"open", "closed"} : sock' = s
                  /\ lvl' = [lvl EXCEPT ![t] = "inner"]
                  /\ cycled' = [cycled EXCEPT ![t] = FALSE]
                  /\ pc' = [pc EXCEPT ![t] = "reconnect"]
             ELSE /\ pc' = [pc EXCEPT ![t] = AfterError(t)]
                  /\ UNCHANGED <<sock, lvl, cycled>>
    /\ UNCHANGED <<wire, state, op, ref, att, watt, req, buf, stale, _running,
                   pidx, fixedVars>>

\* update_*_state: the response arrives and is made a Words or a Bits
RefreshRecv(t) ==
    /\ pc[t] = "rwait"
    /\ \E response \in Responses(req[t]) :
          buf' = [buf EXCEPT ![t] = RefreshDecode(ref[t].space, response, req[t].count)]
    /\ req' = [req EXCEPT ![t] = NoReq]
    /\ pc' = [pc EXCEPT ![t] = "rassign"]
    /\ stale' = [stale EXCEPT ![t] = FALSE]
    /\ UNCHANGED <<wire, state, sock, op, ref, att, watt, lvl, exc, cycled,
                   _running, pidx, fixedVars>>

\* Holding.write_lsb / write_msb: the calls that read before they write
ByteWrites == {"write_lsb", "write_msb"}

\* where a thread goes when its update_*_state returns
\* update_*_state returned: to the worker's tick, to update_state, to the caller
AfterRefresh(t) ==
    IF t = "poll" THEN "advance"
    ELSE IF op[t].kind = "update_state" THEN "unext"
    ELSE IF op[t].kind \in ByteWrites THEN "modify"
    ELSE IF op[t].kind = "read" THEN "value"
    ELSE "done"

\* the values update_*_state has read go into the slice it names
RefreshFits(t) ==
    LET wireAddress == RefreshWireAddress(ref[t].space, ref[t].address)
        width == RefreshWidth(bits_in_state, ref[t].space, ref[t].address, ref[t].width)
    IN Assignable(state[ref[t].space], wireAddress - BaseOf(ref[t].space),
                  wireAddress + width - BaseOf(ref[t].space), buf[t])

\* update_*_state: the slice named reaches beyond the array, numpy raises
\* ValueError, which leaves the wrapper; the cache is as it was
RefreshMismatch(t) ==
    /\ pc[t] = "rassign"
    /\ ~RefreshFits(t)
    /\ exc' = [exc EXCEPT ![t] = "ValueError"]
    /\ pc' = [pc EXCEPT ![t] = AfterError(t)]
    /\ UNCHANGED <<wire, state, sock, op, ref, att, watt, lvl, req, buf,
                   cycled, stale, _running, pidx, fixedVars>>

\* update_*_state: the slice of the cache is overwritten, the call returns
RefreshAssign(t) ==
    /\ pc[t] = "rassign"
    /\ RefreshFits(t)
    /\ state' = RefreshStore(state, ref[t].space,
                             RefreshWireAddress(ref[t].space, ref[t].address),
                             RefreshWidth(bits_in_state, ref[t].space, ref[t].address,
                                          ref[t].width),
                             buf[t])
    /\ pc' = [pc EXCEPT ![t] = AfterRefresh(t)]
    /\ UNCHANGED <<wire, sock, op, ref, att, watt, lvl, exc, req, buf,
                   cycled, stale, _running, pidx, fixedVars>>

\* the error auto_reconnect raises after its last iteration, taken as the
\* wrapper around the caller would see it
ModbusCommunicationErrorAsBrokenPipe == "BrokenPipeError"

\* raise ModbusCommunicationError(...): exceptions.py defines the class; it is
\* an error kind of its own ("transport failed after retries"), not a broken pipe
ModbusCommunicationError == "ModbusCommunicationError"

\* update_*_state gave up inside write_*: whether write_*'s own wrapper
\* catches what it raised
CaughtByWriteWrapper(t) == watt[t] > 0 /\ Caught(ModbusCommunicationError)

\* auto_reconnect's except branch: args[0].reconnect(), then the next
\* iteration of the loop, or ModbusCommunicationError after the last one
Reconnect(t) ==
    /\ pc[t] = "reconnect"
    /\ LET calls == ReconnectCalls(sock) IN
        /\ sock' = SockAfter(sock, calls)
        /\ cycled' = [cycled EXCEPT ![t] = ClosedThenOpened(sock, calls)]
    /\ IF lvl[t] = "inner"
       THEN /\ att' = [att EXCEPT ![t] = IF HasRetry(att[t]) THEN att[t] + 1 ELSE att[t]]
            /\ pc' = [pc EXCEPT ![t] = IF HasRetry(att[t]) THEN "rsend"
                                       ELSE IF CaughtByWriteWrapper(t) THEN "reconnect"
                                       ELSE AfterError(t)]
            /\ lvl' = [lvl EXCEPT ![t] = IF ~HasRetry(att[t]) /\ CaughtByWriteWrapper(t)
                                         THEN "outer" ELSE @]
            /\ watt' = watt
       ELSE /\ watt' = [watt EXCEPT ![t] = IF HasRetry(watt[t]) THEN watt[t] + 1 ELSE watt[t]]
            /\ pc' = [pc EXCEPT ![t] = IF HasRetry(watt[t]) THEN "wsend" ELSE AfterError(t)]
            /\ att' = att
            /\ lvl' = lvl
    /\ UNCHANGED <<wire, state, op, ref, exc, req, buf, stale, _running,
                   pidx, fixedVars>>

-----------------------------------------------------------------------------
(* modules/channel.py: the change listener of a channel *)

\* hasattr(modbus_connection, 'register_channel_callback'): ModbusConnection
\* defines no such method
HasRegisterChannelCallback == FALSE

\* channel.on_change_callback = callback, or None: the field is set; the
\* connection has nothing to register the channel with, and no
\* update_*_state calls notify_value_change
SetCallback(callback) ==
    /\ pc["api"] = "idle"
    /\ _on_change_callback # callback
    /\ ~HasRegisterChannelCallback
    /\ _on_change_callback' = callback
    /\ UNCHANGED <<wire, state, sock, pc, op, ref, att, watt, lvl, exc, req,
                   buf, cycled, stale, _running, pidx, clock, bits_in_state,
                   fieldLive, notified, hubVars, daliVars, moduleVars>>

-----------------------------------------------------------------------------
(* The continuous-update worker thread *)

\* a tick that would test the regions in another order
RegionOrderCoilFirst == <<"coil", "input", "holding", "discrete">>

\* _continuous_update refreshes the regions in this order
RegionOrder == <<"input", "holding", "discrete", "coil">>

\* start_continuous_update(): no thread alive yet, one is started
StartPoller ==
    /\ pc["api"] = "idle"
    /\ pc["poll"] = "off"
    /\ _running' = TRUE
    /\ pc' = [pc EXCEPT !["poll"] = "loop"]
    /\ pidx' = 0
    /\ clock' = 0
    /\ UNCHANGED <<wire, state, sock, op, ref, att, watt, lvl, exc, req, buf,
                   cycled, stale, bits_in_state, fieldLive, _on_change_callback,
                   notified, hubVars, daliVars, moduleVars>>

\* while self._running: the next tick begins, or the thread ends
PollLoop ==
    /\ pc["poll"] = "loop"
    /\ IF _running
       THEN /\ pidx' = 1
            /\ pc' = [pc EXCEPT !["poll"] = "check"]
       ELSE /\ pidx' = 0
            /\ pc' = [pc EXCEPT !["poll"] = "off"]
    /\ UNCHANGED <<wire, state, sock, op, ref, att, watt, lvl, exc, req, buf,
                   cycled, stale, _running, fixedVars>>

\* the region's interval has elapsed: self.update_<region>_state()
PollRefresh ==
    /\ pc["poll"] = "check"
    /\ ref' = [ref EXCEPT !["poll"] =
                 [space |-> RegionOrder[pidx], address |-> None, width |-> None]]
    /\ att' = [att EXCEPT !["poll"] = 1]
    /\ pc' = [pc EXCEPT !["poll"] = "rsend"]
    /\ UNCHANGED <<wire, state, sock, op, watt, lvl, exc, req, buf, cycled,
                   stale, _running, pidx, fixedVars>>

\* the region's interval has not elapsed: the region is passed over
PollSkip ==
    /\ pc["poll"] = "check"
    /\ pc' = [pc EXCEPT !["poll"] = "advance"]
    /\ UNCHANGED <<wire, state, sock, op, ref, att, watt, lvl, exc, req, buf,
                   cycled, stale, _running, pidx, fixedVars>>

\* on to the next region of the tick; after the last one, sleep and loop
PollAdvance ==
    /\ pc["poll"] = "advance"
    /\ IF pidx < Len(RegionOrder)
       THEN /\ pidx' = pidx + 1
            /\ pc' = [pc EXCEPT !["poll"] = "check"]
       ELSE /\ pidx' = 0
            /\ pc' = [pc EXCEPT !["poll"] = "loop"]
    /\ ref' = [ref EXCEPT !["poll"] = NoRef]
    /\ att' = [att EXCEPT !["poll"] = 0]
    /\ buf' = [buf EXCEPT !["poll"] = <<>>]
    /\ UNCHANGED <<wire, state, sock, op, watt, lvl, exc, req, cycled, stale,
                   _running, fixedVars>>

\* except Exception: log, sleep 0.5 s, back to the head of the loop
PollPause ==
    /\ pc["poll"] = "pause"
    /\ pc' = [pc EXCEPT !["poll"] = "loop"]
    /\ pidx' = 0
    /\ ref' = [ref EXCEPT !["poll"] = NoRef]
    /\ att' = [att EXCEPT !["poll"] = 0]
    /\ lvl' = [lvl EXCEPT !["poll"] = "none"]
    /\ exc' = [exc EXCEPT !["poll"] = "none"]
    /\ cycled' = [cycled EXCEPT !["poll"] = TRUE]
    /\ UNCHANGED <<wire, state, sock, op, watt, req, buf, stale, _running,
                   fixedVars>>

\* stop_continuous_update: join(timeout=2 * min(intervals))
JoinLimit == 2
\* the time the model follows after the flag was cleared
Horizon == JoinLimit + 4

\* join(timeout): the timeout has passed
JoinExpired(c) == c >= JoinLimit

\* stop_continuous_update: a thread is alive; clear the flag and join it
StopPoller ==
    /\ pc["api"] = "idle"
    /\ _running
    /\ pc["poll"] # "off"
    /\ _running' = FALSE
    /\ pc' = [pc EXCEPT !["api"] = "join"]
    /\ clock' = 0
    /\ UNCHANGED <<wire, state, sock, op, ref, att, watt, lvl, exc, req, buf,
                   cycled, stale, pidx, bits_in_state, fieldLive,
                   _on_change_callback, notified, hubVars, daliVars, moduleVars>>

\* the thread ended within the timeout: join returns, stop returns
JoinReturn ==
    /\ pc["api"] = "join"
    /\ pc["poll"] = "off"
    /\ pc' = [pc EXCEPT !["api"] = "idle"]
    /\ UNCHANGED <<wire, state, sock, op, ref, att, watt, lvl, exc, req, buf,
                   cycled, stale, _running, pidx, fixedVars>>

\* the timeout passed with the thread alive: a warning, and stop returns
JoinTimeout ==
    /\ pc["api"] = "join"
    /\ pc["poll"] # "off"
    /\ JoinExpired(clock)
    /\ pc' = [pc EXCEPT !["api"] = "idle"]
    /\ UNCHANGED <<wire, state, sock, op, ref, att, watt, lvl, exc, req, buf,
                   cycled, stale, _running, pidx, fixedVars>>

\* where the worker can stay for long: in a client call (a read, a connect)
\* and in the sleep after an error
Blocked == pc["poll"] \in {"rwait", "reconnect", "pause"}

\* time passes while a blocked thread outlives the cleared flag; a join does
\* not wait beyond its timeout
Tick ==
    /\ ~_running
    /\ Blocked
    /\ clock < Horizon
    /\ pc["api"] = "join" => ~JoinExpired(clock)
    /\ clock' = clock + 1
    /\ UNCHANGED <<wire, state, sock, pc, op, ref, att, watt, lvl, exc, req,
                   buf, cycled, stale, _running, pidx, bits_in_state,
                   fieldLive, _on_change_callback, notified, hubVars, daliVars, moduleVars>>

-----------------------------------------------------------------------------
(* Specifications *)

\* the address and width arguments an update_*_state call can be given
UpdateArgs(space) ==
    LET n == CellsOf(bits_in_state, space) IN
    {<<a, w>> \in ((0..(n - 1)) \cup {None}) \X ((1..n) \cup {None}) :
        (IF a = None THEN 0 ELSE a) + (IF w = None THEN 1 ELSE w) <= n}

ApiWrite ==
    \/ \E a \in 0..(CellsOf(bits_in_state, "coil") - 1), v \in BOOLEAN :
            CallWriteCoil(a, v)
    \/ \E a \in 0..(CellsOf(bits_in_state, "holding") - 1), v \in WordVals :
            CallWriteRegisters(a, v)

ApiCall ==
    \/ ApiWrite
    \/ \E space \in Spaces : \E aw \in UpdateArgs(space) :
            CallUpdate(space, aw[1], aw[2])
    \/ CallUpdateState
    \/ UpdateNext
    \/ Return

\* the steps of a call on a healthy transport
Transfer(t) ==
    \/ WriteSend(t)
    \/ WriteRecv(t)
    \/ RefreshSend(t)
    \/ RefreshRecv(t)
    \/ RefreshAssign(t)

\* a broken pipe and what auto_reconnect does about it
Broken(t) ==
    \/ WriteFault(t)
    \/ RefreshFault(t)
    \/ Reconnect(t)

Poller ==
    \/ StartPoller
    \/ PollLoop
    \/ PollRefresh
    \/ PollSkip
    \/ PollAdvance

\* one caller, no worker thread
Next == ApiCall \/ Transfer("api") \/ Broken("api")

Spec == InitConn /\ [][Next]_vars

\* a thread sends the request of its write_* call
WriteGoesOut(t) == pc[t] # "wsend" /\ pc'[t] = "wsend"

\* C39: a write request goes out at the start of a write call, and again only
\* from the retry after a write request that itself failed with a broken
\* pipe, before any refresh of the call has begun (att = 0): when the write
\* was taken and only the refresh that follows it fails, the refresh alone is
\* repeated and the write is not sent a second time
C39_WriteNotReissued ==
    [][\A t \in Threads :
          WriteGoesOut(t) =>
              \/ pc[t] = "idle"
              \/ pc[t] = "reconnect" /\ lvl[t] = "outer" /\ att[t] = 0]_vars

\* a write was taken once, each of the three refreshes after it failed with a
\* broken pipe, and the call has ended with the error
C39_Witness ==
    /\ pc["api"] = "error"
    /\ op["api"].kind = "write_coil"
    /\ watt["api"] = 1
    /\ att["api"] = Retries
    /\ lvl["api"] = "inner"
    /\ exc["api"] = "BrokenPipeError"

\* the address and width arguments that reach beyond the end of a space
UpdateArgsBeyond(space) ==
    LET n == CellsOf(bits_in_state, space) IN
    {<<a, w>> \in (0..n) \X (1..(n + 1)) : a + w > n}

\* the caller with refreshes of any range and writes, next to the ticks of
\* the worker
NextLen ==
    \/ ApiWrite
    \/ \E space \in Spaces : \E aw \in UpdateArgs(space) \cup UpdateArgsBeyond(space) :
            CallUpdate(space, aw[1], aw[2])
    \/ Return
    \/ Transfer("api")
    \/ RefreshMismatch("api")
    \/ Poller
    \/ RefreshSend("poll")
    \/ RefreshRecv("poll")
    \/ RefreshAssign("poll")

\* a connection whose output image is set and whose field is at rest
InitLen ==
    /\ wire = [holding |-> ImageTable(65535), coil |-> ImageTable(TRUE)]
    /\ bits_in_state = ImageBits
    /\ state = ZeroState(ImageBits)
    /\ sock = "open"
    /\ fieldLive = FALSE
    /\ ThreadsIdle
    /\ NoHub
    /\ present = {}
    /\ fieldWords = WordVals
    /\ ballast = NoBallast

SpecLen == InitLen /\ [][NextLen]_vars

\* the caller and the worker thread, both on the one client, healthy transport
NextPoll == ApiWrite \/ Return \/ (\E t \in Threads : Transfer(t)) \/ Poller

SpecPoll == InitConn /\ [][NextPoll]_vars

\* full refreshes by the caller next to the ticks of the worker
NextOrder ==
    \/ CallUpdateState
    \/ UpdateNext
    \/ Return
    \/ \E t \in Threads : RefreshSend(t) \/ RefreshRecv(t) \/ RefreshAssign(t)
    \/ Poller
    \/ \E callback \in BOOLEAN : SetCallback(callback)

SpecOrder == InitConn /\ [][NextOrder]_vars

\* the steps of the worker thread, broken pipes and protocol errors included
Worker ==
    \/ PollLoop
    \/ PollRefresh
    \/ PollSkip
    \/ PollAdvance
    \/ PollPause
    \/ RefreshSend("poll")
    \/ RefreshRecv("poll")
    \/ RefreshAssign("poll")
    \/ RefreshFault("poll")
    \/ Reconnect("poll")

\* the worker thread, started and stopped by the caller
NextStop ==
    \/ StartPoller
    \/ StopPoller
    \/ JoinReturn
    \/ JoinTimeout
    \/ Tick
    \/ Worker

SpecStop == InitConn /\ [][NextStop]_vars

\* the worker is a thread of its own and is scheduled again and again; time
\* passes between ticks, so the interval of a region that is checked tick
\* after tick has elapsed at one of them
SpecLive ==
    /\ SpecStop
    /\ WF_vars(Worker)
    /\ \A i \in DOMAIN RegionOrder : SF_vars(PollRefresh /\ pidx = i)

-----------------------------------------------------------------------------
(* The claims about the connection *)

WriteKinds == {"write_coil", "write_registers"}

\* read_coil(address) / read_holding_register(address): the cached cell
CachedRead(space, a) == state[space][a]

\* the local address an update_*_state call starts at
RefreshFirst(r) == RefreshWireAddress(r.space, r.address) - BaseOf(r.space)

\* a thread is about to repeat a client call that raised a broken pipe
Retrying(t) ==
    \/ pc[t] = "rsend" /\ att[t] > 1
    \/ pc[t] = "wsend" /\ watt[t] > 1

\* a thread holds the client: a request is out, or its response is not yet stored
InExchange(t) == pc[t] \in {"wwait", "rwait", "rassign"}

\* C1: with no worker thread and no broken pipe, once write(v) has returned
\* on a coil or holding channel, a cached read of that channel returns v.
C1_WriteThenRead ==
    (/\ pc["api"] = "done"
     /\ op["api"].kind \in WriteKinds
     /\ pc["poll"] = "off"
     /\ att["api"] = 1
     /\ watt["api"] = 1)
    => CachedRead(op["api"].space, op["api"].addr) = op["api"].val

\* C2: with the worker thread running, no refresh of the worker whose
\* response was taken before a write reached the controller is stored in
\* the cache after that write has returned to its caller.
C2_NoStaleOverwrite ==
    [][~(/\ pc["api"] = "done"
         /\ op["api"].kind \in WriteKinds
         /\ pc["poll"] = "rassign"
         /\ ref["poll"].space = op["api"].space
         /\ stale["poll"]
         /\ pc["poll"]' # "rassign")]_vars

\* C3: at most one thread at a time has a request out on the client or a
\* response not yet stored in the cache.
C3_Serialised == Cardinality({t \in Threads : InExchange(t)}) <= 1

\* C4: the write request of a coil or holding channel at local address a
\* names the wire address the refresh of that cell reads, 0x0200 + a.
C4_WriteAddress ==
    \A t \in Threads :
        pc[t] = "wwait" =>
            /\ req[t].address = RefreshWireAddress(op[t].space, op[t].addr)
            /\ req[t].address = OutputBase + op[t].addr

\* C9: a call repeated after a broken pipe goes out on a socket that was
\* closed and opened again since the failure; the caller gets an error only
\* when every attempt of the budget failed, and otherwise the call returns
\* with the response of the attempt that succeeded stored in the cache.
C9_ReconnectThenSuccess ==
    \A t \in Threads :
        /\ Retrying(t) => cycled[t] /\ sock = "open"
        /\ (pc[t] = "error" /\ exc[t] = "BrokenPipeError") =>
              \/ lvl[t] = "inner" /\ att[t] = Retries
              \/ lvl[t] = "outer" /\ watt[t] = Retries
        /\ (pc[t] = "done" /\ op[t].kind = "update") =>
              \A i \in DOMAIN buf[t] :
                  state[ref[t].space][RefreshFirst(ref[t]) + i] = buf[t][i]

\* C9 witness: an update of the input space returned after its first attempt
\* broke and its second brought 0xFFFF, which the cache now shows
C9_Witness ==
    /\ pc["api"] = "done"
    /\ op["api"].kind = "update"
    /\ op["api"].space = "input"
    /\ att["api"] = 2
    /\ buf["api"][0] = 65535
    /\ state["input"][RefreshFirst(ref["api"])] = 65535

\* C10: a refresh never makes more than Retries attempts; it raises only
\* when the last of them broke, and neither a broken attempt nor the
\* reconnect nor the raise changes the cache.
C10_RefreshGivesUp ==
    [][\A t \in Threads :
          /\ att[t]' <= Retries
          /\ (pc[t] = "reconnect" /\ lvl[t] = "inner" /\ pc[t]' = "error")
                => att[t] = Retries
          /\ (pc[t] \in {"rsend", "reconnect"} /\ pc[t]' \in {"reconnect", "rsend", "error"})
                => state' = state]_vars

\* C10 witness: an update of the input space has raised after three attempts
C10_Witness ==
    /\ pc["api"] = "error"
    /\ op["api"].kind = "update"
    /\ op["api"].space = "input"
    /\ lvl["api"] = "inner"
    /\ att["api"] = Retries
    /\ cycled["api"]

\* C11: a transport call that fails with an error other than a broken pipe is
\* attempted once: the error leaves the wrapper at its first occurrence, the
\* socket is not cycled and no attempt is counted
C11_OtherErrorOnce ==
    [][\A t \in Threads :
          (pc[t] \in {"wsend", "rsend"} /\ pc'[t] # pc[t]
             /\ exc'[t] \notin {"none", "BrokenPipeError"}) =>
              /\ pc'[t] = AfterError(t)
              /\ sock' = sock
              /\ att'[t] = att[t]
              /\ watt'[t] = watt[t]
              /\ cycled'[t] = cycled[t]
              /\ state' = state]_vars

\* a first attempt failed with a protocol error and the call has ended
C11_Witness ==
    /\ pc["api"] = "error"
    /\ exc["api"] = "ModbusIOException"
    /\ att["api"] + watt["api"] = 1
    /\ cycled["api"]

\* stop_continuous_update has returned and left the thread alive
Abandoned == ~_running /\ pc["api"] = "idle" /\ pc["poll"] # "off"

\* C12: once stop has returned, the worker issues no read on the client for
\* 4 * min(intervals), also when the join timed out on a blocked worker
C12_NoReadAfterStop ==
    [][(Abandoned /\ clock < JoinLimit + 4) =>
          req'["poll"] \in {req["poll"], NoReq}]_vars

\* the worker has a fresh response of the region in hand
Refreshed(space) == pc["poll"] = "rassign" /\ ref["poll"].space = space

\* no client call of the worker is failing
Healthy == pc["poll"] \notin {"reconnect", "pause"}

\* C13: an error in a region refresh of the worker neither ends the worker
\* nor leaves it: the worker pauses and goes back to the head of its loop,
\* and with the poller left running and the transport recovered every
\* region is refreshed again and again
C13_WorkerSurvives ==
    /\ [](pc["poll"] = "off" => ~_running)
    /\ [](pc["poll"] # "error")
    /\ (pc["poll"] = "pause") ~> (pc["poll"] = "loop")
    /\ \A space \in Spaces :
          <>[](_running /\ Healthy) => []<>Refreshed(space)

\* a protocol error reached the worker's except clause while the poller runs
C13_Witness ==
    /\ pc["poll"] = "pause"
    /\ exc["poll"] = "ModbusIOException"
    /\ _running

\* the thread goes into an update_*_state call of its tick or full refresh
Begins(t) == pc[t] \in {"idle", "unext", "check"} /\ pc'[t] = "rsend"

\* the place of a region in the order input, holding, discrete, coil
Rank(space) ==
    CASE space = "input" -> 1
      [] space = "holding" -> 2
      [] space = "discrete" -> 3
      [] space = "coil" -> 4

\* C14: in one tick of the worker and in one full refresh the regions are
\* refreshed in the order input, holding, discrete, coil: the worker's
\* position moves forward by one region at a time and the region refreshed
\* is the one at the position; a full refresh takes all four in turn
C14_FixedOrder ==
    [][/\ Begins("poll") => Rank(ref'["poll"].space) = pidx
       /\ (pc["poll"] = "advance" /\ pc'["poll"] = "check") => pidx' = pidx + 1
       /\ (pc["poll"] = "loop" /\ pc'["poll"] = "check") => pidx' = 1
       /\ (Begins("api") /\ pc["api"] = "idle") => Rank(ref'["api"].space) = 1
       /\ (Begins("api") /\ pc["api"] = "unext") =>
              Rank(ref'["api"].space) = Rank(ref["api"].space) + 1
       /\ (pc["api"] = "unext" /\ pc'["api"] = "done") =>
              Rank(ref["api"].space) = 4]_vars

\* the worker is at the coils, last in its tick, while a full refresh of the
\* caller is past the inputs
C14_Witness ==
    /\ pc["poll"] = "rassign"
    /\ ref["poll"].space = "coil"
    /\ pc["api"] = "rwait"
    /\ ref["api"].space = "holding"

\* the cached value of the channel on discrete input 0
ChannelValue(st) == st["discrete"][0]

\* C15: a channel with a listener has the listener called once, with the new
\* value, at each change a region refresh makes to its cached value, and not
\* at a refresh that leaves the value as it was
C15_ListenerFires ==
    [][_on_change_callback =>
          IF ChannelValue(state') # ChannelValue(state)
          THEN notified' = Append(notified, ChannelValue(state'))
          ELSE notified' = notified]_vars

\* the first cell and the number of cells a refresh is asked for: an
\* address left out is 0, a width left out reaches to the end of the space
AskedAddress(r) == IF r.address = None THEN 0 ELSE r.address
AskedWidth(r) ==
    IF r.width = None THEN CellsOf(bits_in_state, r.space) - AskedAddress(r)
    ELSE r.width

\* C37: a refresh of a space with (address, width) sends its read for width
\* cells from the base of the space plus address, takes the cells of the
\* output image the request names, and overwrites the cached cells
\* [address, address + width) of that space with the values read; every
\* other cell of the space and the three other spaces stay as they are.  A
\* width left out reaches from address to the end of the space.
C37_RefreshSlice ==
    [][\A t \in Threads :
          /\ (pc[t] = "rsend" /\ pc'[t] = "rwait") =>
                /\ req'[t].address = BaseOf(ref[t].space) + AskedAddress(ref[t])
                /\ req'[t].count = AskedWidth(ref[t])
          /\ (pc[t] = "rwait" /\ pc'[t] = "rassign" /\ IsOutputSpace(ref[t].space)) =>
                \A i \in 0..(AskedWidth(ref[t]) - 1) :
                    buf'[t][i] = WireAt(ref[t].space,
                                       BaseOf(ref[t].space) + AskedAddress(ref[t]) + i)
          /\ (pc[t] = "rassign" /\ pc'[t] # "rassign") =>
                /\ \A i \in DOMAIN state[ref[t].space] :
                      state'[ref[t].space][i] =
                          IF AskedAddress(ref[t]) <= i
                                /\ i < AskedAddress(ref[t]) + AskedWidth(ref[t])
                          THEN buf[t][i - AskedAddress(ref[t])]
                          ELSE state[ref[t].space][i]
                /\ \A s \in Spaces \ {ref[t].space} : state'[s] = state[s]]_vars

\* C38: each of the four cached arrays has the length it got from the
\* widths the controller reported: bits div 16 words for input and holding,
\* bits for discrete and coil, whatever refreshes, writes, ticks of the
\* worker and failed operations have happened
C38_LengthsFixed ==
    \A space \in Spaces :
        DOMAIN state[space] = 0..(CellsOf(bits_in_state, space) - 1)

\* C38 witness: a refresh of holding cells beyond the end of the space has
\* failed after an earlier refresh had filled the cache
C38_Witness ==
    /\ pc["api"] = "error"
    /\ exc["api"] = "ValueError"
    /\ ref["api"].space = "holding"
    /\ state["holding"][1] = 65535

\* C37 witness: update_holding_state(1, 1) has returned with cell 1 read
\* from the output image and cell 0, which the image shows set too, left
\* as it was
C37_Witness ==
    /\ pc["api"] = "done"
    /\ op["api"].kind = "update"
    /\ ref["api"] = [space |-> "holding", address |-> 1, width |-> 1]
    /\ WireAt("holding", OutputBase) = 65535
    /\ state["holding"][0] = 0
    /\ state["holding"][1] = 65535

-----------------------------------------------------------------------------
(* Part 2: the Hub.                                                        *)
(*                                                                         *)
(* The controller's configuration registers are one more table of the      *)
(* controller: a read returns the cells it names.  The module class        *)
(* (modules/module.py) builds a module from its identification word: the   *)
(* digital bit field or the catalogue gives its channel counts, and its    *)
(* channels come from ModbusChannel.create_channels at the address the hub *)
(* hands it.                                                               *)

(* Bounds of the model *)

\* identification words the controller holds from 0x2030 on
MaxWords == 3

(* Program constants *)

\* read_input_registers(0x2030 + i, count=64) for i in range(3)
DescriptionBase == 8240
BlockLen == 64
Blocks == 3

\* the registers _read_data_width_in_state reads: 0x1022..0x1025
WidthRegister == [holding |-> 4130, input |-> 4131, coil |-> 4132, discrete |-> 4133]

\* identification words of the model: none, the DALI master 641, a digital
\* input module of 8 channels (0x8408), a digital output module of 2 (0xC402)
IdWords == {0, 641, 33800, 50178}

threadVars == <<pc, op, ref, att, watt, lvl, exc, req, buf, cycled, stale,
                _running, pidx, clock, _on_change_callback, notified,
                daliVars, moduleVars>>

\* Hub._first_address
_first_address == [coil |-> 0, discrete |-> 0, input |-> 0, holding |-> 0]

(* The module an identification word stands for *)

\* a count that would be taken from bits 14..8
ChannelCountHighByte(w) == (w \div 256) % 128

\* bit 15: a digital module; bit 14: its direction; bits 7..0: its channels
IsDigital(w) == (w \div 32768) % 2 = 1
IsOutput(w) == (w \div 16384) % 2 = 1
ChannelCount(w) == w % 256

\* the catalogue of families: Wg750DaliMaster.spec.modbus_channels
Catalogue == [w \in {641} |-> [input |-> 3, holding |-> 3]]

\* spec.modbus_channels of the module a word stands for
ModuleChannels(w) ==
    IF IsDigital(w)
    THEN (IF IsOutput(w) THEN [s \in {"coil"} |-> ChannelCount(w)]
                         ELSE [s \in {"discrete"} |-> ChannelCount(w)])
    ELSE IF w \in DOMAIN Catalogue THEN Catalogue[w] ELSE [s \in {} |-> 0]

\* IOType(): digital, input and output default to False
IOType == [digital |-> FALSE, input |-> FALSE, output |-> FALSE]

\* the catalogue of families: Wg750DaliMaster.spec.io_type
CatalogueIO == [w \in {641} |-> [IOType EXCEPT !.input = TRUE, !.output = TRUE]]

\* spec.io_type of the module a word stands for
ModuleIOType(w) ==
    IF IsDigital(w)
    THEN [digital |-> TRUE, input |-> ~IsOutput(w), output |-> IsOutput(w)]
    ELSE IF w \in DOMAIN CatalogueIO THEN CatalogueIO[w] ELSE IOType

\* the ModuleSpec of the module a word stands for
ModuleSpecOf(w) == [io_type |-> ModuleIOType(w), modbus_channels |-> ModuleChannels(w)]

\* count.get(space, 0)
CountOf(count, space) == IF space \in DOMAIN count THEN count[space] ELSE 0

\* the subclasses of ModbusChannel, in the order they are defined
ChannelClasses ==
    <<[class |-> "Coil", channel_type |-> "coil"],
      [class |-> "Discrete", channel_type |-> "discrete"],
      [class |-> "Holding", channel_type |-> "holding"],
      [class |-> "Input", channel_type |-> "input"]>>

\* ModbusChannel.create: the first subclass of the type, at address.get(type, 0)
create(modbus_channel_type, address) ==
    LET hits == {k \in 1..Len(ChannelClasses) :
                    ChannelClasses[k].channel_type = modbus_channel_type}
        first == CHOOSE k \in hits : \A j \in hits : k <= j
    IN [class |-> ChannelClasses[first].class,
        channel_type |-> ChannelClasses[first].channel_type,
        address |-> IF modbus_channel_type \in DOMAIN address
                    THEN address[modbus_channel_type] ELSE 0]

\* a create_channels that would give every channel the address it was handed
create_channels_same_address(count, address) ==
    [module_type \in DOMAIN count |->
        [n \in 1..count[module_type] |-> create(module_type, address)]]

\* ModbusChannel.create_channels: for each type, count channels, the i-th
\* created with every address of the dict moved up by i
create_channels(count, address) ==
    [module_type \in DOMAIN count |->
        [n \in 1..count[module_type] |->
            create(module_type, [k \in DOMAIN address |-> address[k] + (n - 1)])]]

\* WagoModule.module_factory(index, module_identifier, modbus_address, ...)
module_factory(index, w, modbus_address) ==
    [index |-> index,
     module_identifier |-> w,
     spec |-> ModuleChannels(w),
     modbus_address |-> modbus_address,
     modbus_channels |-> create_channels(ModuleChannels(w), modbus_address)]

(* The configuration registers *)

RegAt(a) == IF a \in DOMAIN regs THEN regs[a] ELSE 0

\* self._client.read_input_registers(address, count).registers
read_input_registers(address, count) == [k \in 1..count |-> RegAt(address + k - 1)]

\* _read_data_width_in_state(): one register each, value_to_int()
_read_data_width_in_state ==
    [space \in Spaces |-> read_input_registers(WidthRegister[space], 1)[1]]

(* Discovery *)

\* register_values after the reads of block i and those behind it
RECURSIVE ReadBlocks(_)
ReadBlocks(i) ==
    IF i >= Blocks THEN <<>>
    ELSE read_input_registers(DescriptionBase + i, BlockLen) \o ReadBlocks(i + 1)

\* reset_modules(): the widths, the list and the cursor start over
reset_modules ==
    /\ _process_state_width' = ZeroWidth
    /\ modules' = <<>>
    /\ _next_address' = _first_address

\* _get_connected_modules_from_controller(reset), up to its second loop:
\* reset_modules(), then the three reads into register_values
ReadModules(r, call) ==
    /\ reset_modules
    /\ register_values' = ReadBlocks(0)
    /\ vpos' = 1
    /\ reset' = r
    /\ hcall' = call
    /\ modules_before' = modules

\* connect(): the client, the widths, the connection, a full refresh
connect ==
    /\ hpc = "new"
    /\ hpc' = "connected"
    /\ sock' = "open"
    /\ _process_state_width' = _read_data_width_in_state
    /\ bits_in_state' = _read_data_width_in_state
    /\ state' \in update_state(ZeroState(_read_data_width_in_state),
                               _read_data_width_in_state)
    /\ herr' = "none"
    /\ UNCHANGED <<wire, fieldLive, regs, threadVars, modules, _next_address,
                   is_initialized, is_module_discovery_done, reset,
                   register_values, vpos, hcall, modules_before>>

\* initialize(discovery): on a hub with no client, is_connected raises
\* after reset_modules(); otherwise reset, refresh, and either discovery
\* (run_discovery clears the flag and reads the modules) or initialized
initialize(discovery) ==
    /\ hpc \in {"new", "connected"}
    /\ hcall = "none"
    /\ ~is_initialized
    /\ IF hpc = "new"
       THEN /\ reset_modules
            /\ herr' = "AttributeError"
            /\ UNCHANGED <<state, is_initialized, is_module_discovery_done,
                           reset, register_values, vpos, hcall, modules_before>>
       ELSE /\ state' \in update_state(state, bits_in_state)
            /\ herr' = "none"
            /\ IF discovery
               THEN /\ ReadModules(TRUE, "initialize")
                    /\ is_module_discovery_done' = FALSE
                    /\ UNCHANGED is_initialized
               ELSE /\ reset_modules
                    /\ is_initialized' = TRUE
                    /\ UNCHANGED <<is_module_discovery_done, reset,
                                   register_values, vpos, hcall, modules_before>>
    /\ UNCHANGED <<wire, bits_in_state, sock, fieldLive, regs, hpc, threadVars>>

\* run_discovery(): the flag is cleared, the modules are read
run_discovery ==
    /\ hpc = "connected"
    /\ hcall = "none"
    /\ is_module_discovery_done' = FALSE
    /\ ReadModules(TRUE, "run_discovery")
    /\ herr' = "none"
    /\ UNCHANGED <<wire, bits_in_state, state, sock, fieldLive, regs, hpc,
                   threadVars, is_initialized>>

\* _get_connected_modules_from_controller(reset) called on its own
Rediscover(r) ==
    /\ hpc = "connected"
    /\ hcall = "none"
    /\ ReadModules(r, "_get_connected_modules_from_controller")
    /\ herr' = "none"
    /\ UNCHANGED <<wire, bits_in_state, state, sock, fieldLive, regs, hpc,
                   threadVars, is_initialized, is_module_discovery_done>>

\* the value passes: if value != 0 and (len(self.modules) < 1 or reset)
Passes(value, mods, r) == value # 0 /\ (Len(mods) < 1 \/ r)

\* one iteration of "for value in register_values": a module is built at
\* the cursor and appended to the list; the cursor is not touched
DiscoverValue ==
    /\ hcall # "none"
    /\ vpos <= Len(register_values)
    /\ modules' =
          IF Passes(register_values[vpos], modules, reset)
          THEN Append(modules, module_factory(Len(modules), register_values[vpos],
                                              _next_address))
          ELSE modules
    /\ vpos' = vpos + 1
    /\ UNCHANGED <<wire, bits_in_state, state, sock, fieldLive, regs, hpc,
                   threadVars, _process_state_width, _next_address,
                   is_initialized, is_module_discovery_done, reset,
                   register_values, hcall, herr, modules_before>>

\* the loop is over: run_discovery sets its flag, initialize sets its own too
DiscoverEnd ==
    /\ hcall # "none"
    /\ vpos > Len(register_values)
    /\ is_module_discovery_done' =
          IF hcall \in {"initialize", "run_discovery"} THEN TRUE
          ELSE is_module_discovery_done
    /\ is_initialized' = IF hcall = "initialize" THEN TRUE ELSE is_initialized
    /\ register_values' = <<>>
    /\ vpos' = 0
    /\ hcall' = "none"
    /\ modules_before' = <<>>
    /\ UNCHANGED <<wire, bits_in_state, state, sock, fieldLive, regs, hpc,
                   threadVars, modules, _process_state_width, _next_address,
                   reset, herr>>

\* errors the discovery under way can end with: the client's read of the
\* description registers raises, or the construction of a module does
ReadErrors == Exceptions
ConstructionErrors == {"NotImplementedError"}

\* run_discovery: except NotImplementedError
CaughtByDiscovery(e) == e = "NotImplementedError"

\* a handler that would set the flag after the error it caught
FlagAfterCaughtSet(call, e, flag) ==
    IF call \in {"initialize", "run_discovery"} /\ CaughtByDiscovery(e) THEN TRUE ELSE flag

\* is_module_discovery_done after an error: the assignment of True behind
\* the call is not reached, whether the error is caught or not
FlagAfterError(call, e, flag) == flag

\* the discovery under way raises: a read error after reset_modules() and
\* before the loop, a construction error at a value that passes.
\* run_discovery catches NotImplementedError, and initialize then goes on
\* to set is_initialized; every other error leaves through the caller
DiscoverFault(e) ==
    /\ hcall # "none"
    /\ vpos <= Len(register_values)
    /\ IF e \in ReadErrors THEN vpos = 1
       ELSE Passes(register_values[vpos], modules, reset)
    /\ is_module_discovery_done' = FlagAfterError(hcall, e, is_module_discovery_done)
    /\ IF hcall \in {"initialize", "run_discovery"} /\ CaughtByDiscovery(e)
       THEN /\ herr' = "none"
            /\ is_initialized' = IF hcall = "initialize" THEN TRUE ELSE is_initialized
       ELSE /\ herr' = e
            /\ UNCHANGED is_initialized
    /\ register_values' = <<>>
    /\ vpos' = 0
    /\ hcall' = "none"
    /\ modules_before' = <<>>
    /\ UNCHANGED <<wire, bits_in_state, state, sock, fieldLive, regs, hpc,
                   threadVars, modules, _process_state_width, _next_address,
                   reset>>

(* The controller a hub is constructed for *)

\* the words of the modules installed: up to the first zero
RECURSIVE Installed(_)
Installed(ws) ==
    IF ws = <<>> \/ Head(ws) = 0 THEN <<>> ELSE <<Head(ws)>> \o Installed(Tail(ws))

\* bits a module's channels take in a space
BitsIn(count, space) ==
    CountOf(count, space) * (IF IsBitSpace(space) THEN 1 ELSE WordBits)

\* the width of a space the controller reports for its installed modules
RECURSIVE WidthOf(_, _)
WidthOf(ws, space) ==
    IF ws = <<>> THEN 0
    ELSE BitsIn(ModuleChannels(Head(ws)), space) + WidthOf(Tail(ws), space)

RegsOf(ws) ==
    [a \in {WidthRegister[s] : s \in Spaces}
           \cup (DescriptionBase..(DescriptionBase + Len(ws) - 1)) |->
        IF a >= DescriptionBase THEN ws[a - DescriptionBase + 1]
        ELSE WidthOf(Installed(ws), CHOOSE s \in Spaces : WidthRegister[s] = a)]

\* Hub(config, initialize=False): nothing connected, nothing discovered
InitHub ==
    /\ \E ws \in [1..MaxWords -> IdWords] : regs = RegsOf(ws)
    /\ wire = [holding |-> <<>>, coil |-> <<>>]
    /\ bits_in_state = ZeroWidth
    /\ state = ZeroState(ZeroWidth)
    /\ sock = "closed"
    /\ fieldLive = FALSE
    /\ ThreadsIdle
    /\ present = {}
    /\ fieldWords = WordVals
    /\ ballast = NoBallast
    /\ hpc = "new"
    /\ modules = <<>>
    /\ _process_state_width = ZeroWidth
    /\ _next_address = _first_address
    /\ is_initialized = FALSE
    /\ is_module_discovery_done = FALSE
    /\ reset = TRUE
    /\ register_values = <<>>
    /\ vpos = 0
    /\ hcall = "none"
    /\ herr = "none"
    /\ modules_before = <<>>

NextDisc ==
    \/ connect
    \/ \E discovery \in BOOLEAN : initialize(discovery)
    \/ run_discovery
    \/ \E r \in BOOLEAN : Rediscover(r)
    \/ DiscoverValue
    \/ DiscoverEnd

SpecDisc == InitHub /\ [][NextDisc]_vars

\* the public calls of the hub, with the errors a discovery can end with
NextFault ==
    \/ connect
    \/ \E discovery \in BOOLEAN : initialize(discovery)
    \/ run_discovery
    \/ DiscoverValue
    \/ DiscoverEnd
    \/ \E e \in ReadErrors \cup ConstructionErrors : DiscoverFault(e)

SpecFault == InitHub /\ [][NextFault]_vars

-----------------------------------------------------------------------------
(* The claims about discovery *)

\* a discovery with reset=True has run to its end
Discovered == hpc = "connected" /\ hcall = "none" /\ is_module_discovery_done /\ reset

\* channels the first n modules of a list declare in a space
RECURSIVE SumCounts(_, _, _)
SumCounts(mods, space, n) ==
    IF n = 0 THEN 0
    ELSE SumCounts(mods, space, n - 1) + CountOf(mods[n].spec, space)

\* the 192 registers from 0x2030 on, and their words up to the first zero
DescriptionWords ==
    [k \in 1..(Blocks * BlockLen) |-> RegAt(DescriptionBase + k - 1)]

\* the identification word each module of the list was built from
ModuleWords == [k \in 1..Len(modules) |-> modules[k].module_identifier]

\* C5: after discovery each module's base address in a space is the sum of
\* the channel counts of the modules before it, and the cursor ends at the
\* sum over all of them: slices are disjoint and in discovery order.
C5_CursorAdvances ==
    Discovered =>
        \A space \in Spaces :
            /\ \A k \in 1..Len(modules) :
                  modules[k].modbus_address[space] = SumCounts(modules, space, k - 1)
            /\ _next_address[space] = SumCounts(modules, space, Len(modules))

\* C6: after discovery the module list is one module per identification
\* word, in register order, up to the first zero word of the 192 registers
\* from 0x2030 on, and nothing else.
C6_ModulesAreTheWords ==
    Discovered => ModuleWords = Installed(DescriptionWords)

\* C7: after initialisation with discovery the channels the modules declare
\* in a space, in bits, do not exceed the width the hub holds for it.
C7_WidthBound ==
    (Discovered /\ is_initialized) =>
        \A space \in Spaces :
            SumCounts(modules, space, Len(modules))
                * (IF IsBitSpace(space) THEN 1 ELSE WordBits)
              <= _process_state_width[space]

\* C8: every module has, for each space it populates and no other, as many
\* channels as it declares, each of the space's kind, the i-th at base + i.
C8_ChannelsOfModule ==
    \A k \in 1..Len(modules) :
        /\ DOMAIN modules[k].modbus_channels = DOMAIN modules[k].spec
        /\ \A space \in DOMAIN modules[k].spec :
              /\ Len(modules[k].modbus_channels[space]) = modules[k].spec[space]
              /\ \A n \in 1..Len(modules[k].modbus_channels[space]) :
                    /\ modules[k].modbus_channels[space][n].channel_type = space
                    /\ modules[k].modbus_channels[space][n].address
                          = modules[k].modbus_address[space] + (n - 1)

\* C8 witness: discovery has built a DALI master with three input and three
\* holding channels and an eight-channel digital input module
C8_Witness ==
    /\ Discovered
    /\ \E k \in 1..Len(modules) :
          /\ modules[k].module_identifier = 641
          /\ Len(modules[k].modbus_channels["input"]) = 3
          /\ modules[k].modbus_channels["holding"][3].address = 2
    /\ \E k \in 1..Len(modules) :
          /\ modules[k].module_identifier = 33800
          /\ modules[k].modbus_channels["discrete"][8].address = 7

\* the words of a list that are not zero, in order
NonZeroWords(ws) == SelectSeq(ws, LAMBDA v : v # 0)

\* the discovery under way runs to its end
DiscoveryEnds == hcall # "none" /\ hcall' = "none" /\ herr' = "none"

\* C31: a discovery with reset=True ends with a list of exactly the modules
\* of the words it read; one with reset=False ends with the list it found
\* when that list was not empty, and with every module of the words it
\* read when the list was empty.
C31_ResetModes ==
    [][DiscoveryEnds =>
          /\ reset => ModuleWords' = NonZeroWords(register_values)
          /\ (~reset /\ modules_before # <<>>) => modules' = modules_before
          /\ (~reset /\ modules_before = <<>>) =>
                ModuleWords' = NonZeroWords(register_values)]_vars

\* a call of run_discovery, on its own or from initialize, returns or raises
RunDiscoveryEnds == hcall \in {"initialize", "run_discovery"} /\ hcall' = "none"

\* C32: is_module_discovery_done is true exactly when the most recent
\* run_discovery ran to its end: the call clears the flag when it begins, a
\* call that ends in a failed read or a failed construction leaves it
\* false, a call that reaches its end sets it, nothing else changes it, and
\* run_discovery can be called again on the connected hub after a failure.
C32_FlagFollowsDiscovery ==
    [][/\ RunDiscoveryEnds =>
              (is_module_discovery_done' <=> vpos > Len(register_values))
       /\ (hcall = "none" /\ hcall' \in {"initialize", "run_discovery"}) =>
              ~is_module_discovery_done'
       /\ is_module_discovery_done' # is_module_discovery_done =>
              (hcall \in {"initialize", "run_discovery"}
                  \/ hcall' \in {"initialize", "run_discovery"})
       /\ (hpc = "connected" /\ hcall = "none") => ENABLED run_discovery]_vars

\* C32 witness: a discovery of the connected hub has ended in a read error,
\* the hub is marked not discovered and run_discovery can be called again
C32_Witness ==
    /\ hpc = "connected"
    /\ hcall = "none"
    /\ herr \in ReadErrors
    /\ ~is_module_discovery_done
    /\ ENABLED run_discovery

-----------------------------------------------------------------------------
(* Part 3: the DALI master (modules/dali).                                  *)
(*                                                                         *)
(* A command method of DaliChannelCommands checks its argument and hands   *)
(* one message, or the same message twice, to                              *)
(* DaliCommunicationRegister.write; Wg750DaliMaster.create_channels asks   *)
(* the gateway which short addresses are present and makes a channel for   *)
(* each.  write takes a message through the transmit handshake of the      *)
(* gateway, carried in the module's three holding and three input words.   *)

\* the short address of the channel the commands are called on
ShortAddress == 5

\* the short addresses a ballast may be found at
Candidates == {0, 7, 9, 31, 32, 63}

\* check_value_range that would let every value pass
check_value_range_any(value, min_value, max_value) == TRUE

\* check_value_range: not min_value <= value <= max_value raises ValueError
check_value_range(value, min_value, max_value) ==
    min_value <= value /\ value <= max_value

Plain(send, code) ==
    [send |-> send, code |-> code, ranged |-> FALSE, min_value |-> 0, max_value |-> 0]
Ranged(send, code, min_value, max_value) ==
    [send |-> send, code |-> code, ranged |-> TRUE,
     min_value |-> min_value, max_value |-> max_value]

\* the command methods: the helper each one sends with, its command code (or
\* the base its argument is added to), the range its argument is checked for;
\* of the methods without an argument the first and the last of each helper
Commands ==
    [power_off |-> Plain("command", 0),
     power_on_and_increase_brightness |-> Plain("command", 8),
     go_to_scene |-> Ranged("command", 16, 1, 16),
     reset |-> Plain("config", 32),
     save_dtr_to_step_speed |-> Plain("config", 47),
     save_dtr_to_scene |-> Ranged("config", 64, 1, 16),
     remove_from_scene |-> Ranged("config", 80, 1, 16),
     add_to_group |-> Ranged("config", 96, 1, 16),
     remove_from_group |-> Ranged("config", 112, 1, 16),
     save_dtr_as_short_address |-> Plain("config", 128),
     get_status |-> Plain("read", 144),
     get_scene_value |-> Ranged("read", 176, 0, 15),
     set_brightness |-> Ranged("brightness", 0, 0, 254),
     blink_show_address |-> Ranged("extended", 5, 0, 255)]

Methods == DOMAIN Commands

\* the arguments a method is called with: both ends of its range and the
\* values next to them
Arguments(method) ==
    LET c == Commands[method] IN
    IF c.ranged
    THEN {c.min_value - 1, c.min_value, c.max_value, c.max_value + 1}
    ELSE {0}

\* DaliOutputMessage(dali_address=..., command_code=... / command_extension=...
\* / brightness=...)
DaliOutputMessage(dali_address, command_code, command_extension, parameter_1, brightness) ==
    [dali_address |-> dali_address, command_code |-> command_code,
     command_extension |-> command_extension, parameter_1 |-> parameter_1,
     brightness |-> brightness]

\* the message of a method call
MessageOf(method, arg) ==
    LET c == Commands[method] IN
    CASE c.send \in {"command", "config", "read"} ->
            DaliOutputMessage(ShortAddress, c.code + arg, None, None, None)
      [] c.send = "extended" ->
            DaliOutputMessage(ShortAddress, None, c.code, arg, None)
      [] c.send = "brightness" ->
            DaliOutputMessage(ShortAddress, None, None, None, arg)

\* _send_command, _send_extended_command, _read_command, set_brightness: one
\* write; _send_config_command: two writes of the same message
WritesOf(send) == IF send = "config" THEN 2 ELSE 1

Messages(method, arg) ==
    [i \in 1..WritesOf(Commands[method].send) |-> MessageOf(method, arg)]

\* get_groups and get_direct_address: the command codes they read with
QueryMethods == [get_groups |-> <<192, 193>>, get_direct_address |-> <<194, 195, 196>>]

\* _read_command and the queries call write(..., response=True)
ExpectsResponse(method) ==
    \/ method = "create_channels"
    \/ method \in DOMAIN QueryMethods
    \/ method \in DOMAIN Commands /\ Commands[method].send = "read"

\* query_short_address_present: command_extension 0x06, then 0x07
QueryMessages ==
    <<DaliOutputMessage(None, None, 6, None, None),
      DaliOutputMessage(None, None, 7, None, None)>>

\* the gateway's answer to a presence query: bit b of byte k of a half
\* stands for the short address 32 * half + 8 * k + b
PresenceBit(a) == IF a \in present THEN 1 ELSE 0
PresenceByte(base) ==
    PresenceBit(base) + 2 * PresenceBit(base + 1) + 4 * PresenceBit(base + 2)
    + 8 * PresenceBit(base + 3) + 16 * PresenceBit(base + 4)
    + 32 * PresenceBit(base + 5) + 64 * PresenceBit(base + 6)
    + 128 * PresenceBit(base + 7)
PresenceBytes(half) == [k \in 1..4 |-> PresenceByte(32 * half + 8 * (k - 1))]

\* the response byte of the ballast to a query: commands 192 and 193 give
\* the membership in groups 0..7 and 8..15, commands 194..196 the three
\* bytes of its address
BallastByte(command_code) ==
    CASE command_code = 192 -> ballast.groups % 256
      [] command_code = 193 -> ballast.groups \div 256
      [] command_code \in 194..196 -> ballast.address[command_code - 193]
      [] OTHER -> 0

\* the response bytes the gateway shows for a message
Answer(message) ==
    IF message.command_extension = 6 THEN PresenceBytes(0)
    ELSE IF message.command_extension = 7 THEN PresenceBytes(1)
    ELSE <<BallastByte(message.command_code), 0, 0, 0>>

\* DaliInputMessage: the response byte and the three bytes after it
DaliInputMessage(bytes) ==
    [dali_response |-> bytes[1], message_3 |-> bytes[2],
     message_2 |-> bytes[3], message_1 |-> bytes[4]]

\* 2 ** i for the bits of a byte
Pow2(i) == CASE i = 0 -> 1 [] i = 1 -> 2 [] i = 2 -> 4 [] i = 3 -> 8
             [] i = 4 -> 16 [] i = 5 -> 32 [] i = 6 -> 64 [] i = 7 -> 128

\* get_bit / iterate_bits: bool((byte >> i) & 1)
get_bit(byte, i) == (byte \div Pow2(i)) % 2 = 1

\* [offset + i for bit, i in iterate_bits(byte) if bit]
BitList(byte, offset) ==
    LET Place(i) == get_bit(byte, i - offset)
    IN SelectSeq([k \in 1..8 |-> offset + k - 1], Place)

\* a conversion that would take the four bytes in the opposite order
ResponseToChannelListReversed(response, offset) ==
    BitList(response.message_1, offset)
      \o BitList(response.message_2, offset + 8)
      \o BitList(response.message_3, offset + 16)
      \o BitList(response.dali_response, offset + 24)

\* _dali_response_to_channel_list(response, offset)
_dali_response_to_channel_list(response, offset) ==
    BitList(response.dali_response, offset)
      \o BitList(response.message_3, offset + 8)
      \o BitList(response.message_2, offset + 16)
      \o BitList(response.message_1, offset + 24)

\* query_short_address_present: the list of the first half, extended by the
\* list of the second
query_short_address_present(answers) ==
    _dali_response_to_channel_list(answers[1], 0)
      \o _dali_response_to_channel_list(answers[2], 32)

\* a create_channels that would let the timeout through
OnTimeoutRaise(method) == "TimeoutError"

\* where a timeout of write leaves the call: create_channels catches
\* TimeoutError, logs and returns; a command method lets it through
OnTimeout(method) ==
    IF method = "create_channels" THEN "returned" ELSE "TimeoutError"

\* a command method is called: the range check, then the writes it will make
DaliCall(method, arg) ==
    /\ dpc = "idle"
    /\ dcall' = [method |-> method, arg |-> arg]
    /\ LET c == Commands[method] IN
       IF c.ranged /\ ~check_value_range(arg, c.min_value, c.max_value)
       THEN /\ dpc' = "ValueError"
            /\ todo' = <<>>
       ELSE /\ dpc' = "next"
            /\ todo' = Messages(method, arg)
    /\ UNCHANGED <<cycles, responses, holding641, input641, present, channel,
                   last, connVars, hubVars, moduleVars>>

\* Wg750DaliMaster.create_channels
CreateChannels ==
    /\ dpc = "idle"
    /\ channel = <<>>
    /\ dcall' = [method |-> "create_channels", arg |-> 0]
    /\ todo' = QueryMessages
    /\ dpc' = "next"
    /\ UNCHANGED <<cycles, responses, holding641, input641, present, channel,
                   last, connVars, hubVars, moduleVars>>

\* write: the control fields of the message go into the holding words
WriteFields ==
    /\ dpc = "next"
    /\ holding641' = [holding641 EXCEPT !.message = Head(todo)]
    /\ dpc' = "fields"
    /\ UNCHANGED <<dcall, todo, cycles, responses, input641, present, channel,
                   last, connVars, hubVars, moduleVars>>

\* write: transmit_request goes from 0 to 1
RaiseRequest ==
    /\ dpc = "fields"
    /\ holding641' = [holding641 EXCEPT !.transmit_request = TRUE]
    /\ dpc' = "wait1"
    /\ UNCHANGED <<dcall, todo, cycles, responses, input641, present, channel,
                   last, connVars, hubVars, moduleVars>>

\* the gateway: transmit_ack follows transmit_request; with the rising
\* acknowledge the response bytes of the message are in the input words
GatewayAck ==
    /\ input641.transmit_ack # holding641.transmit_request
    /\ input641' = [transmit_ack |-> holding641.transmit_request,
                    response |-> IF holding641.transmit_request
                                 THEN Answer(holding641.message)
                                 ELSE input641.response]
    /\ UNCHANGED <<dpc, dcall, todo, cycles, responses, holding641, present,
                   channel, last, connVars, hubVars, moduleVars>>

\* a write that would read the response without waiting for transmit_ack
SeeAckBlind ==
    /\ dpc = "wait1"
    /\ responses' = IF ExpectsResponse(dcall.method)
                    THEN Append(responses, DaliInputMessage(input641.response))
                    ELSE responses
    /\ dpc' = "got"
    /\ UNCHANGED <<dcall, todo, cycles, holding641, input641, present, channel,
                   last, connVars, hubVars, moduleVars>>

\* write: transmit_ack was seen at 1; the response bytes are read if the
\* caller asked for them
SeeAck ==
    /\ dpc = "wait1"
    /\ input641.transmit_ack
    /\ responses' = IF ExpectsResponse(dcall.method)
                    THEN Append(responses, DaliInputMessage(input641.response))
                    ELSE responses
    /\ dpc' = "got"
    /\ UNCHANGED <<dcall, todo, cycles, holding641, input641, present, channel,
                   last, connVars, hubVars, moduleVars>>

\* write: transmit_request goes back to 0
ClearRequest ==
    /\ dpc = "got"
    /\ holding641' = [holding641 EXCEPT !.transmit_request = FALSE]
    /\ dpc' = "wait0"
    /\ UNCHANGED <<dcall, todo, cycles, responses, input641, present, channel,
                   last, connVars, hubVars, moduleVars>>

\* write: transmit_ack was seen back at 0 and write returns; the method goes
\* on to its next write or returns, create_channels with a channel for each
\* short address of the query
SeeAckDown ==
    /\ dpc = "wait0"
    /\ ~input641.transmit_ack
    /\ cycles' = Append(cycles, Head(todo))
    /\ todo' = Tail(todo)
    /\ IF Tail(todo) # <<>>
       THEN /\ dpc' = "next"
            /\ channel' = channel
       ELSE /\ dpc' = "returned"
            /\ channel' = IF dcall.method = "create_channels"
                          THEN query_short_address_present(responses)
                          ELSE channel
    /\ UNCHANGED <<dcall, responses, holding641, input641, present, last,
                   connVars, hubVars, moduleVars>>

\* write: transmit_ack has not come up within the timeout; the request is
\* taken back and the call ends
Timeout ==
    /\ dpc = "wait1"
    /\ ~input641.transmit_ack
    /\ holding641' = [holding641 EXCEPT !.transmit_request = FALSE]
    /\ dpc' = OnTimeout(dcall.method)
    /\ UNCHANGED <<dcall, todo, cycles, responses, input641, present, channel,
                   last, connVars, hubVars, moduleVars>>

\* the call is over; the caller may make the next
DaliReturn ==
    /\ dpc \in {"returned", "ValueError", "TimeoutError"}
    /\ last' = IF todo # <<>> THEN "TimeoutError" ELSE dpc
    /\ dpc' = "idle"
    /\ dcall' = NoCall
    /\ todo' = <<>>
    /\ cycles' = <<>>
    /\ responses' = <<>>
    /\ UNCHANGED <<holding641, input641, present, channel, connVars, hubVars, moduleVars>>

\* write, from the message to the return
Transmit ==
    \/ WriteFields
    \/ RaiseRequest
    \/ GatewayAck
    \/ SeeAck
    \/ ClearRequest
    \/ SeeAckDown
    \/ Timeout

\* a DALI master on a bus with the ballasts of the set
InitMaster(ballasts) ==
    /\ wire = [holding |-> ImageTable(0), coil |-> ImageTable(FALSE)]
    /\ bits_in_state = ImageBits
    /\ state = ZeroState(ImageBits)
    /\ sock = "open"
    /\ fieldLive = TRUE
    /\ ThreadsIdle
    /\ NoHub
    /\ present \in ballasts
    /\ fieldWords = WordVals
    /\ ballast = NoBallast

\* the ballasts of the bus the commands are sent on
Ballasts == {7, 32}

\* the channels are created, commands are called
NextDali ==
    \/ \E method \in Methods : \E arg \in Arguments(method) : DaliCall(method, arg)
    \/ CreateChannels
    \/ Transmit
    \/ DaliReturn

SpecDali == InitMaster({Ballasts}) /\ [][NextDali]_vars

\* the channels are created, on any bus
NextScan == CreateChannels \/ Transmit \/ DaliReturn

SpecScan == InitMaster(SUBSET Candidates) /\ [][NextScan]_vars


-----------------------------------------------------------------------------
(* The claims about the DALI master *)

EndPositions == {"returned", "ValueError", "TimeoutError"}

C17_TimeoutOnce ==
    [][(dpc = "wait1" /\ dpc' \notin {"wait1", "got"}) =>
          /\ ~input641.transmit_ack
          /\ dpc' = IF dcall.method = "create_channels"
                    THEN "returned" ELSE "TimeoutError"
          /\ ~holding641'.transmit_request
          /\ input641' = input641
          /\ todo' = todo
          /\ cycles' = cycles
          /\ channel' = channel
          /\ dcall.method = "create_channels" => channel = <<>>]_vars

\* after a call that timed out, channel creation got its first query through
\* the handshake and lost the second to the timeout: it has returned, with
\* ballasts on the bus and no channel
C17_Witness ==
    /\ last = "TimeoutError"
    /\ dcall.method = "create_channels"
    /\ dpc = "returned"
    /\ Len(cycles) = 1
    /\ Len(todo) = 1
    /\ channel = <<>>
    /\ present # {}

\* the message of the command in progress
Current == MessageOf(dcall.method, dcall.arg)

\* C18: a command whose number is in 32..127 has had two handshakes with the
\* same message when it returns, a command whose number is in 0..31 one
C18_ConfigTwice ==
    (dpc = "returned" /\ dcall.method \in Methods
       /\ Commands[dcall.method].send \in {"command", "config"}) =>
        /\ Current.command_code \in 32..127 => cycles = <<Current, Current>>
        /\ Current.command_code \in 0..31 => cycles = <<Current>>

\* the range a method is declared with
Declared(method) ==
    CASE method \in {"go_to_scene", "save_dtr_to_scene", "remove_from_scene",
                     "add_to_group", "remove_from_group"} -> 1..16
      [] method = "get_scene_value" -> 0..15
      [] method = "set_brightness" -> 0..254
      [] method = "blink_show_address" -> 0..255
      [] OTHER -> {0}

\* C19: a command called with an argument outside its range ends with
\* ValueError before anything is written: no message is handed to write and
\* the holding words stay as they were
C19_RangeChecked ==
    [][(dpc = "idle" /\ dcall'.method \in Methods
          /\ dcall'.arg \notin Declared(dcall'.method)) =>
          /\ dpc' = "ValueError"
          /\ todo' = <<>>
          /\ holding641' = holding641
          /\ cycles' = cycles]_vars

\* set_brightness(255) has failed with nothing written
C19_Witness ==
    /\ dpc = "ValueError"
    /\ dcall = [method |-> "set_brightness", arg |-> 255]
    /\ todo = <<>>
    /\ cycles = <<>>
    /\ ~holding641.transmit_request

\* the entries of a list
Entries(list) == {list[i] : i \in DOMAIN list}

\* C20: the presence query gives the short addresses in 0..63 whose bit is
\* set, each once, in ascending order
C20_PresentAscending ==
    (dpc = "returned" /\ dcall.method = "create_channels" /\ todo = <<>>) =>
        /\ Entries(channel) = present \cap (0..63)
        /\ \A i \in DOMAIN channel : \A j \in DOMAIN channel :
              i < j => channel[i] < channel[j]

\* every candidate address has a ballast and all of them were found
C20_Witness ==
    /\ dpc = "returned"
    /\ dcall.method = "create_channels"
    /\ todo = <<>>
    /\ present = Candidates
    /\ Len(channel) = Cardinality(Candidates)

\* the command numbers of the catalogue for the commands of a scene or group
CatalogueRange ==
    [go_to_scene |-> 16..31, save_dtr_to_scene |-> 64..79,
     remove_from_scene |-> 80..95, add_to_group |-> 96..111,
     remove_from_group |-> 112..127]

\* C34: every accepted call of a command with a scene or group argument
\* hands over messages whose command code lies in the catalogue range of
\* its own command, so it never sends the code of another command
C34_CodesInOwnRange ==
    (dcall.method \in DOMAIN CatalogueRange /\ dpc # "ValueError") =>
        \A i \in DOMAIN todo :
            todo[i].command_code \in CatalogueRange[dcall.method]

-----------------------------------------------------------------------------
(***************************************************************************)
(* Part 4: the counter module (modules/counter)                            *)
(*                                                                         *)
(* Counter32Bit.set(v) and reset() assign                                  *)
(* CounterCommunicationRegister.value, read() evaluates it.  The setter    *)
(* takes int.to_bytes() of the value, whose default length is one byte,    *)
(* stores the result in its own copy of the input words, and then assigns  *)
(* control_byte.set_counter, which begins with self.register.bits().       *)
(* Words (registers.py) defines neither bits() nor bytes(): both lookups   *)
(* raise AttributeError, so no statement behind them is ever run.          *)
(***************************************************************************)

\* the counter on the wire is counted up to here
MaxCount == 4

\* the values set(v) is called with
CounterValues == {0, 5, 255, 256, 65541}

\* int.to_bytes(): length=1, and OverflowError for a value of more bytes
ToBytesLength == 1
Fits(v) == v < 256 * ToBytesLength

\* a 32-bit value as two words, low word first
LittleWords(v) == <<U16(v), U16(v \div 65536)>>

\* Counter32Bit.set(value): communication_register.value = value
CounterSet(v) ==
    /\ cpc = "idle"
    /\ cpc' = "store"
    /\ ccall' = [method |-> "set", value |-> v]
    /\ cexc' = "none"
    /\ UNCHANGED <<input_register, counterHolding, counterInput, exceptCounter>>

\* Counter32Bit.reset(): communication_register.value = 0
CounterReset ==
    /\ cpc = "idle"
    /\ cpc' = "store"
    /\ ccall' = [method |-> "reset", value |-> 0]
    /\ cexc' = "none"
    /\ UNCHANGED <<input_register, counterHolding, counterInput, exceptCounter>>

\* self.input_register[1:3] = Words(value.to_bytes()): the one byte goes
\* through numpy's conversion to uint16, which takes it or raises
CounterStore ==
    /\ cpc = "store"
    /\ \/ /\ ~Fits(ccall.value)
          /\ cexc' = "OverflowError"
          /\ cpc' = "raised"
          /\ UNCHANGED input_register
       \/ /\ Fits(ccall.value)
          /\ cexc' = "ValueError"
          /\ cpc' = "raised"
          /\ UNCHANGED input_register
       \/ /\ Fits(ccall.value)
          /\ input_register' = LittleWords(ccall.value)
          /\ cpc' = "control"
          /\ UNCHANGED cexc
    /\ UNCHANGED <<ccall, counterHolding, counterInput, exceptCounter>>

\* self.control_byte.set_counter = True -> _set_and_write(5, True):
\* self.register.bits() is looked up on a Register, which has no bits
CounterControl ==
    /\ cpc = "control"
    /\ cexc' = "AttributeError"
    /\ cpc' = "raised"
    /\ UNCHANGED <<ccall, input_register, counterHolding, counterInput,
                   exceptCounter>>

\* Counter32Bit.read() -> value: self.input_register[1:3].bytes() is looked
\* up on a Words, which has no bytes
CounterRead ==
    /\ cpc = "idle"
    /\ ccall' = [method |-> "read"]
    /\ cexc' = "AttributeError"
    /\ cpc' = "raised"
    /\ UNCHANGED <<input_register, counterHolding, counterInput, exceptCounter>>

\* Counter32Bit.lock() / unlock(): self.communication_register.lock = True /
\* False, an assignment to the attribute that held the method; the call
\* returns, nothing is written
ChannelLock(value) ==
    /\ cpc = "idle"
    /\ ccall' = [method |-> IF value THEN "lock" ELSE "unlock"]
    /\ cexc' = "none"
    /\ lock' = IF value THEN "True" ELSE "False"
    /\ UNCHANGED <<cpc, input_register, counterHolding, counterInput, connVars,
                   hubVars, daliVars, channelVars, pureVars, threadObjVars,
                   timeVars, ballast>>

\* CounterCommunicationRegister.lock() / unlock(): control_byte.lock = value
\* -> _set_and_write(4, value), whose self.register.bits() raises; once a
\* bool was assigned over the method the call itself raises TypeError
RegisterLock(value) ==
    /\ cpc = "idle"
    /\ ccall' = [method |-> IF value THEN "register.lock" ELSE "register.unlock"]
    /\ cexc' = IF lock = "method" THEN "AttributeError" ELSE "TypeError"
    /\ cpc' = "raised"
    /\ UNCHANGED <<input_register, counterHolding, counterInput, exceptCounter>>

\* the exception reaches the caller of the channel method
CounterReturn ==
    /\ cpc = "raised"
    /\ cpc' = "idle"
    /\ UNCHANGED <<ccall, cexc, input_register, counterHolding, counterInput,
                   exceptCounter>>

\* the module counts a pulse on its input
Pulse ==
    /\ counterInput[2] < MaxCount
    /\ counterInput' = [counterInput EXCEPT ![2] = @ + 1]
    /\ UNCHANGED <<cpc, ccall, cexc, input_register, counterHolding, exceptCounter>>

NextCounter ==
    \/ \E v \in CounterValues : CounterSet(v)
    \/ CounterReset
    \/ CounterStore
    \/ CounterControl
    \/ CounterRead
    \/ CounterReturn
    \/ Pulse
    \/ \E value \in BOOLEAN : ChannelLock(value)
    \/ \E value \in BOOLEAN : RegisterLock(value)

SpecCounter == InitMaster({{}}) /\ [][NextCounter]_vars

-----------------------------------------------------------------------------
(* The claims about the counter *)

\* a set(v) call has come to its end
SetEnded == cpc = "raised" /\ ccall.method = "set"

\* C21: counter set(v) writes v to holding words 1 and 2 of the module, low
\* word first, before it raises control.set_counter, and takes set_counter
\* back only once status.ack_set_counter was seen: when a set(v) has ended,
\* the module's holding words 1 and 2 hold v and set_counter is down again
C21_SetWritesValue ==
    SetEnded =>
        /\ <<counterHolding[2], counterHolding[3]>> = LittleWords(ccall.value)
        /\ ~get_bit(counterHolding[1], 5)

\* C22: counter set(v) ends in one of two ways: it saw ack_set_counter and
\* took set_counter back, or it failed with Timeout
C22_AckOrTimeout ==
    SetEnded =>
        \/ cexc = "Timeout"
        \/ cexc = "none" /\ get_bit(counterInput[1], 5)
                         /\ ~get_bit(counterHolding[1], 5)

\* a lock() or unlock() of the channel or of its register comes to its end
LockEnds(value) ==
    /\ cpc = "idle"
    /\ ccall'.method \in (IF value THEN {"lock", "register.lock"}
                          ELSE {"unlock", "register.unlock"})
    /\ ccall' # ccall \/ lock' # lock \/ cpc' # cpc

\* C33: lock() and unlock() end with the control byte written with bit 4
\* at 1 and 0, and with every other bit of the control byte and holding
\* words 1 and 2 as they were
C33_LockTogglesBit4 ==
    [][\A value \in BOOLEAN :
          LockEnds(value) =>
              /\ cexc' = "none"
              /\ get_bit(counterHolding'[1], 4) = value
              /\ \A i \in (0..7) \ {4} :
                    get_bit(counterHolding'[1], i) = get_bit(counterHolding[1], i)
              /\ counterHolding'[2] = counterHolding[2]
              /\ counterHolding'[3] = counterHolding[3]]_vars

-----------------------------------------------------------------------------
(***************************************************************************)
(* Part 4: the typed ModbusChannels (modbus/state.py) and the Words        *)
(* conversions (modbus/registers.py)                                       *)
(***************************************************************************)

\* x & y on the natural numbers
RECURSIVE BitAnd(_, _)
BitAnd(x, y) ==
    IF x = 0 \/ y = 0 THEN 0
    ELSE (x % 2) * (y % 2) + 2 * BitAnd(x \div 2, y \div 2)

\* x | y on the natural numbers
RECURSIVE BitOr(_, _)
BitOr(x, y) ==
    IF x = 0 THEN y
    ELSE IF y = 0 THEN x
    ELSE ((x % 2) + (y % 2) - (x % 2) * (y % 2)) + 2 * BitOr(x \div 2, y \div 2)

\* x << n, x >> n
ShiftLeft(x, n) == x * 2^n
ShiftRight(x, n) == x \div 2^n

(* A Python int has no width.  The result of value_to_int is written as    *)
(* its digits in base 2^16, the least significant first and the most       *)
(* significant not zero, so that the values of a Words of several cells    *)
(* stay within what the checker can compute.                               *)

\* the digits without the zeros at the most significant end
RECURSIVE Norm(_)
Norm(d) ==
    IF d = <<>> THEN <<>>
    ELSE IF d[Len(d)] = 0 THEN Norm(SubSeq(d, 1, Len(d) - 1)) ELSE d

\* int(b) of one cell
IntDigits(b) == Norm(<<b>>)

\* x << n, n a multiple of 16: n / 16 zero digits below those of x
BigShiftLeft(x, n) ==
    Norm([j \in 1..(Len(x) + n \div WordBits) |->
            IF j <= n \div WordBits THEN 0 ELSE x[j - n \div WordBits]])

DigitAt(x, j) == IF j \in DOMAIN x THEN x[j] ELSE 0

\* the carry into digit j of x + y
RECURSIVE Carry(_, _, _)
Carry(x, y, j) ==
    IF j = 1 THEN 0
    ELSE (DigitAt(x, j - 1) + DigitAt(y, j - 1) + Carry(x, y, j - 1)) \div 65536

\* x + y
BigAdd(x, y) ==
    LET n == (IF Len(x) > Len(y) THEN Len(x) ELSE Len(y)) + 1
    IN Norm([j \in 1..n |-> (DigitAt(x, j) + DigitAt(y, j) + Carry(x, y, j)) % 65536])

\* the int of at most two digits as a number
IntOf(d) == DigitAt(d, 1) + 65536 * DigitAt(d, 2)

\* a sum that would shift the first cell most, the last cell not at all
RECURSIVE SumShiftedBigEndian(_, _)
SumShiftedBigEndian(words, i) ==
    IF i \notin DOMAIN words THEN <<>>
    ELSE BigAdd(BigShiftLeft(IntDigits(words[i]),
                             WordBits * (Cardinality(DOMAIN words) - 1 - i)),
                SumShiftedBigEndian(words, i + 1))

\* sum((int(b) << (16 * i) for i, b in enumerate(self._words)), 0), from cell i on
RECURSIVE SumShifted(_, _)
SumShifted(words, i) ==
    IF i \notin DOMAIN words THEN <<>>
    ELSE BigAdd(BigShiftLeft(IntDigits(words[i]), WordBits * i),
                SumShifted(words, i + 1))

\* Words.value_to_int()
value_to_int(words) ==
    IF Cardinality(DOMAIN words) > 1 THEN SumShifted(words, 0)
    ELSE IntDigits(words[0])

\* Words.__getitem__(index): Words([self._words[index]])
GetItem(words, index) == [i \in {0} |-> words[index]]

\* read_holding_register / read_input_register(address) once the update
\* is done: self.state[space][address].value_to_int()
read_register(st, space, address) ==
    IntOf(value_to_int(GetItem(st[space], address)))

\* a read_msb that would leave the byte where it is in the word
ReadMsbUnshifted(st, space, address) ==
    BitAnd(read_register(st, space, address), 65280)

\* Holding.read_lsb / Input.read_lsb: int(...) & 0xFF
read_lsb(st, space, address) == BitAnd(read_register(st, space, address), 255)

\* Holding.read_msb / Input.read_msb: (int(...) & 0xFF00) >> 8
read_msb(st, space, address) ==
    ShiftRight(BitAnd(read_register(st, space, address), 65280), 8)

\* the parts of a word a channel reads: read, read_lsb, read_msb
Parts == {"word", "lsb", "msb"}

PartOf(part, st, space, address) ==
    CASE part = "word" -> read_register(st, space, address)
      [] part = "lsb" -> read_lsb(st, space, address)
      [] part = "msb" -> read_msb(st, space, address)

\* a write_lsb that would put the new byte in the high half
LsbWordSwapped(msb, value) == BitOr(ShiftLeft(value, 8), msb)

\* Holding.write_lsb: Words([(msb << 8) | value])
LsbWord(msb, value) == BitOr(ShiftLeft(msb, 8), value)

\* Holding.write_msb: Words([(value << 8) | lsb])
MsbWord(lsb, value) == BitOr(ShiftLeft(value, 8), lsb)

\* the channel classes whose write raises, and what each raises
ReadOnlyWrites == {"Discrete.write", "Input.write", "DigitalIn.write"}

RaisedBy(kind) == IF kind = "DigitalIn.write" THEN "WagoModuleError" ELSE "ValueError"

ReadOnlySpace(kind) == IF kind = "Input.write" THEN "input" ELSE "discrete"

\* the bytes write_lsb and write_msb are called with
Bytes == {0, 52, 255}

\* the words the holding table and the field show to the channels
ChannelWords == {4863, 43776}

\* Holding.read / Input.read(update), read_lsb(update), read_msb(update)
CallRead(space, a, part, update) ==
    /\ pc["api"] = "idle"
    /\ op' = [op EXCEPT !["api"] = [kind |-> "read", part |-> part, space |-> space,
                                    addr |-> a, val |-> None]]
    /\ watt' = [watt EXCEPT !["api"] = 0]
    /\ IF update
       THEN /\ ref' = [ref EXCEPT !["api"] =
                         [space |-> space, address |-> a, width |-> None]]
            /\ att' = [att EXCEPT !["api"] = 1]
            /\ pc' = [pc EXCEPT !["api"] = "rsend"]
       ELSE /\ pc' = [pc EXCEPT !["api"] = "value"]
            /\ UNCHANGED <<ref, att>>
    /\ UNCHANGED <<wire, state, sock, lvl, exc, req, buf, cycled, stale,
                   _running, pidx, fixedVars>>

\* the read takes its value from the cache and returns it
ReadValue ==
    /\ pc["api"] = "value"
    /\ ret' = PartOf(op["api"].part, state, op["api"].space, op["api"].addr)
    /\ pc' = [pc EXCEPT !["api"] = "done"]
    /\ UNCHANGED <<wire, bits_in_state, state, sock, op, ref, att, watt, lvl,
                   exc, req, buf, cycled, stale, _running, pidx, clock,
                   _on_change_callback, notified, fieldLive, hubVars, daliVars,
                   counterVars, fieldWords, pureVars, threadObjVars, timeVars,
                   fieldVars>>

\* Holding.write_lsb(value) / write_msb(value): self.read_msb(update=True),
\* self.read_lsb(update=True) comes first
CallWriteByte(kind, a, b) ==
    /\ pc["api"] = "idle"
    /\ op' = [op EXCEPT !["api"] = [kind |-> kind, space |-> "holding",
                                    addr |-> a, val |-> b]]
    /\ ref' = [ref EXCEPT !["api"] =
                 [space |-> "holding", address |-> a, width |-> None]]
    /\ watt' = [watt EXCEPT !["api"] = 0]
    /\ att' = [att EXCEPT !["api"] = 1]
    /\ pc' = [pc EXCEPT !["api"] = "rsend"]
    /\ UNCHANGED <<wire, state, sock, lvl, exc, req, buf, cycled, stale,
                   _running, pidx, fixedVars>>

\* write_lsb / write_msb: the other byte is taken from the cache and
\* write_registers(self.address, Words([...])) is entered
Modify ==
    /\ pc["api"] = "modify"
    /\ LET o == op["api"]
           word == IF o.kind = "write_lsb"
                   THEN LsbWord(read_msb(state, "holding", o.addr), o.val)
                   ELSE MsbWord(read_lsb(state, "holding", o.addr), o.val)
       IN op' = [op EXCEPT !["api"] =
                    [kind |-> "write_registers", space |-> "holding",
                     addr |-> o.addr, val |-> U16(word), via |-> o.kind,
                     byte |-> o.val]]
    /\ watt' = [watt EXCEPT !["api"] = 1]
    /\ att' = [att EXCEPT !["api"] = 0]
    /\ pc' = [pc EXCEPT !["api"] = "wsend"]
    /\ UNCHANGED <<wire, state, sock, ref, lvl, exc, req, buf, cycled, stale,
                   _running, pidx, fixedVars>>

\* a write on a read-only channel that would go to the client as a coil write
CallWriteReadOnlySends(kind, a, v) ==
    /\ pc["api"] = "idle"
    /\ op' = [op EXCEPT !["api"] = [kind |-> kind, space |-> ReadOnlySpace(kind),
                                    addr |-> a, val |-> v]]
    /\ watt' = [watt EXCEPT !["api"] = 1]
    /\ att' = [att EXCEPT !["api"] = 0]
    /\ pc' = [pc EXCEPT !["api"] = "wsend"]
    /\ UNCHANGED <<wire, state, sock, ref, lvl, exc, req, buf, cycled, stale,
                   _running, pidx, fixedVars>>

\* Discrete.write(value), Input.write(value), DigitalIn.write(value): raise
CallWriteReadOnly(kind, a, v) ==
    /\ pc["api"] = "idle"
    /\ op' = [op EXCEPT !["api"] = [kind |-> kind, space |-> ReadOnlySpace(kind),
                                    addr |-> a, val |-> v]]
    /\ exc' = [exc EXCEPT !["api"] = RaisedBy(kind)]
    /\ pc' = [pc EXCEPT !["api"] = "error"]
    /\ UNCHANGED <<wire, state, sock, ref, att, watt, lvl, req, buf, cycled,
                   stale, _running, pidx, fixedVars>>

\* a connection whose holding table and field show words of two different bytes
InitChannel ==
    /\ \E image \in [OutAddrs -> ChannelWords] :
          wire = [holding |-> image, coil |-> ImageTable(FALSE)]
    /\ bits_in_state = ImageBits
    /\ state = ZeroState(ImageBits)
    /\ sock = "open"
    /\ fieldLive = TRUE
    /\ fieldWords = ChannelWords
    /\ ballast = NoBallast
    /\ ThreadsIdle
    /\ NoHub
    /\ present = {}

\* the values a read-only channel is written with
WriteVals(kind) == IF kind = "Input.write" THEN WordVals ELSE BOOLEAN

NextChannel ==
    \/ \E space \in {"holding", "input"} :
         \E a \in 0..(CellsOf(bits_in_state, space) - 1) :
           \E part \in Parts, update \in BOOLEAN : CallRead(space, a, part, update)
    \/ ReadValue
    \/ \E kind \in ByteWrites, b \in Bytes :
         \E a \in 0..(CellsOf(bits_in_state, "holding") - 1) : CallWriteByte(kind, a, b)
    \/ Modify
    \/ \E kind \in ReadOnlyWrites :
         \E a \in 0..(CellsOf(bits_in_state, ReadOnlySpace(kind)) - 1) :
           \E v \in WriteVals(kind) : CallWriteReadOnly(kind, a, v)
    \/ Transfer("api")
    \/ Return

SpecChannel == InitChannel /\ [][NextChannel]_vars

-----------------------------------------------------------------------------
(* The claims about the channels *)

\* C23: a write on a discrete channel, on an input channel or on a DigitalIn
\* fails at once: it raises, it puts no request on the transport, and it
\* leaves the wire and the four cached regions as they were
C23_ReadOnlyWriteFails ==
    [][(op'["api"].kind \in ReadOnlyWrites /\ op["api"] # op'["api"]) =>
            /\ pc'["api"] = "error"
            /\ exc'["api"] \in {"ValueError", "WagoModuleError"}
            /\ req'["api"] = NoReq
            /\ req' = req
            /\ state' = state
            /\ wire' = wire]_vars

\* a write on a read-only channel has just failed
C23_Witness ==
    /\ op["api"].kind \in ReadOnlyWrites
    /\ pc["api"] = "error"
    /\ state["input"] # ZeroWords(CellsOf(bits_in_state, "input"))

\* the cell of the holding table a channel's word is fetched from
ChannelCell(a) == WireAt("holding", RefreshWireAddress("holding", a))

\* C24: write_lsb(b) on a holding channel fetches the word fresh from the
\* wire and sends a word whose low byte is b and whose high byte is the high
\* byte the wire holds; write_msb(b) sends b as the high byte over the low
\* byte the wire holds
C24_ByteReadModifyWrite ==
    LET o == op["api"]
        w == req["api"].vals[0]
    IN (pc["api"] = "wwait" /\ "via" \in DOMAIN o) =>
          /\ w \in 0..65535
          /\ state["holding"][o.addr] = ChannelCell(o.addr)
          /\ IF o.via = "write_lsb"
             THEN w % 256 = o.byte /\ w \div 256 = ChannelCell(o.addr) \div 256
             ELSE w \div 256 = o.byte /\ w % 256 = ChannelCell(o.addr) % 256

\* write_lsb(0x34) over the word 0x12FF: 0x1234 is on its way
C24_Witness ==
    /\ pc["api"] = "wwait"
    /\ "via" \in DOMAIN op["api"]
    /\ op["api"].via = "write_lsb"
    /\ op["api"].byte = 52
    /\ ChannelCell(op["api"].addr) = 4863
    /\ req["api"].vals[0] = 4660

\* the word spaces, whose channels read bytes
WordSpaces == {"holding", "input"}

\* C25: for every holding or input channel whose cached word is v, read()
\* returns v, read_lsb() returns v mod 256 and read_msb() returns v div 256,
\* so read_msb() * 256 + read_lsb() = read()
C25_ByteReads ==
    /\ \A space \in WordSpaces : \A a \in DOMAIN state[space] :
          LET v == state[space][a] IN
              /\ read_register(state, space, a) = v
              /\ read_lsb(state, space, a) = v % 256
              /\ read_msb(state, space, a) = v \div 256
              /\ read_msb(state, space, a) * 256 + read_lsb(state, space, a)
                    = read_register(state, space, a)
    /\ (pc["api"] = "done" /\ op["api"].kind = "read") =>
          LET v == state[op["api"].space][op["api"].addr] IN
              ret = CASE op["api"].part = "word" -> v
                      [] op["api"].part = "lsb" -> v % 256
                      [] op["api"].part = "msb" -> v \div 256

\* read_msb() of an input channel has returned 0xAB for the cached 0xAB00
C25_Witness ==
    /\ pc["api"] = "done"
    /\ op["api"].kind = "read"
    /\ op["api"].space = "input"
    /\ op["api"].part = "msb"
    /\ state["input"][op["api"].addr] = 43776
    /\ ret = 171

-----------------------------------------------------------------------------
(* Words.value_to_int() on its own *)

\* the Words are at most this long
MaxLen == 3

\* the cells of the Words
WordSamples == {0, 255, 4863, 65535}

\* Words(words) for every list of 1..MaxLen cells
InitWords ==
    /\ wire = [holding |-> ImageTable(0), coil |-> ImageTable(FALSE)]
    /\ bits_in_state = ImageBits
    /\ state = ZeroState(ImageBits)
    /\ sock = "open"
    /\ fieldLive = TRUE
    /\ fieldWords = WordVals
    /\ ballast = NoBallast
    /\ pc = [t \in Threads |-> IF t = "api" THEN "idle" ELSE "off"]
    /\ op = [t \in Threads |-> NoOp]
    /\ ref = [t \in Threads |-> NoRef]
    /\ att = [t \in Threads |-> 0]
    /\ watt = [t \in Threads |-> 0]
    /\ lvl = [t \in Threads |-> "none"]
    /\ exc = [t \in Threads |-> "none"]
    /\ req = [t \in Threads |-> NoReq]
    /\ buf = [t \in Threads |-> <<>>]
    /\ cycled = [t \in Threads |-> TRUE]
    /\ stale = [t \in Threads |-> FALSE]
    /\ _running = FALSE
    /\ pidx = 0
    /\ clock = 0
    /\ _on_change_callback = FALSE
    /\ notified = <<>>
    /\ DaliIdle
    /\ DefaultTimes
    /\ FieldsIdle
    /\ CounterIdle
    /\ ChannelsIdle
    /\ NoThread
    /\ NoHub
    /\ present = {}
    /\ \E n \in 1..MaxLen : _words \in [0..(n - 1) -> WordSamples]
    /\ intval = NoValue
    /\ subset = NoSubset
    /\ NoIdent

\* words.value_to_int() is called
ValueToInt ==
    /\ intval = NoValue
    /\ intval' = value_to_int(_words)
    /\ UNCHANGED <<_words, ident, descriptor, subset, exceptPure>>

\* the result is taken and the Words is changed: words[index] = value
SetItem(index, v) ==
    /\ intval # NoValue
    /\ index \in DOMAIN _words
    /\ _words' = [_words EXCEPT ![index] = U16(v)]
    /\ intval' = NoValue
    /\ UNCHANGED <<ident, descriptor, subset, exceptPure>>

NextWords ==
    \/ ValueToInt
    \/ \E index \in 0..(MaxLen - 1), v \in WordSamples : SetItem(index, v)

SpecWords == InitWords /\ [][NextWords]_vars

\* the number whose digit of weight 2^(16 * i) is cell i
LittleEndian(words) ==
    Norm([j \in 1..Cardinality(DOMAIN words) |-> words[j - 1]])

\* the number whose digit of weight 2^(16 * (N - 1 - i)) is cell i
BigEndian(words) ==
    Norm([j \in 1..Cardinality(DOMAIN words) |->
            words[Cardinality(DOMAIN words) - j]])

C27_FirstCellMost ==
    intval # NoValue => intval = BigEndian(_words)

-----------------------------------------------------------------------------
(* The identification word decoder on its own *)

\* every 16-bit word
Identifiers == 0..65535

\* ModuleIdentifier(value) for every word
InitIdent ==
    /\ wire = [holding |-> ImageTable(0), coil |-> ImageTable(FALSE)]
    /\ bits_in_state = ImageBits
    /\ state = ZeroState(ImageBits)
    /\ sock = "open"
    /\ fieldLive = TRUE
    /\ fieldWords = WordVals
    /\ ballast = NoBallast
    /\ pc = [t \in Threads |-> IF t = "api" THEN "idle" ELSE "off"]
    /\ op = [t \in Threads |-> NoOp]
    /\ ref = [t \in Threads |-> NoRef]
    /\ att = [t \in Threads |-> 0]
    /\ watt = [t \in Threads |-> 0]
    /\ lvl = [t \in Threads |-> "none"]
    /\ exc = [t \in Threads |-> "none"]
    /\ req = [t \in Threads |-> NoReq]
    /\ buf = [t \in Threads |-> <<>>]
    /\ cycled = [t \in Threads |-> TRUE]
    /\ stale = [t \in Threads |-> FALSE]
    /\ _running = FALSE
    /\ pidx = 0
    /\ clock = 0
    /\ _on_change_callback = FALSE
    /\ notified = <<>>
    /\ DaliIdle
    /\ DefaultTimes
    /\ FieldsIdle
    /\ CounterIdle
    /\ ChannelsIdle
    /\ NoWords
    /\ NoThread
    /\ NoHub
    /\ present = {}
    /\ ident \in Identifiers
    /\ descriptor = <<>>

\* the word is decoded: the spec of the module the factory makes of it
Identify ==
    /\ descriptor = <<>>
    /\ descriptor' = <<ModuleSpecOf(ident)>>
    /\ UNCHANGED <<ident, _words, intval, subset, exceptPure>>

NextIdent == Identify

SpecIdent == InitIdent /\ [][NextIdent]_vars

\* the descriptor of a module no catalogue entry stands for: ModuleSpec()
Generic == [io_type |-> IOType, modbus_channels |-> [s \in {} |-> 0]]

-----------------------------------------------------------------------------
(***************************************************************************)
(* start_continuous_update and stop_continuous_update with the thread      *)
(* object they keep.  stop sets self._update_thread = None also when its   *)
(* join timed out; start asks only whether self._update_thread is a live   *)
(* thread.  The thread "poll" is followed step by step; a thread started   *)
(* while "poll" is still alive is followed as "second", alive until it     *)
(* finds the flag cleared.                                                 *)
(***************************************************************************)

\* Thread.is_alive() of the thread self._update_thread refers to
IsAlive(thread) ==
    \/ thread = "poll" /\ pc["poll"] # "off"
    \/ thread = "second" /\ second # "off"

\* self._update_thread is not None and self._update_thread.is_alive()
HoldsLiveThread == _update_thread # "none" /\ IsAlive(_update_thread)

\* the interval arguments start_continuous_update is called with: none
\* (the intervals stay), interval=1, or input_interval=2 and discrete_interval=2
IntervalArgs ==
    {[r \in Spaces |-> None], [r \in Spaces |-> 1],
     [r \in Spaces |-> IF r \in {"input", "discrete"} THEN 2 ELSE None]}

\* start_continuous_update(...): return if the thread held is alive; else
\* set the intervals given, set every last update to now, set the flag and
\* start a new Thread
start_continuous_update(intervals) ==
    /\ pc["api"] = "idle"
    /\ ~HoldsLiveThread
    /\ _update_intervals' = [r \in Spaces |->
            IF intervals[r] # None THEN intervals[r] ELSE _update_intervals[r]]
    /\ _last_updates' = [r \in Spaces |-> now]
    /\ UNCHANGED <<now, current_time>>
    /\ pc["poll"] = "off" \/ second = "off"
    /\ _running' = TRUE
    /\ IF pc["poll"] = "off"
       THEN /\ pc' = [pc EXCEPT !["poll"] = "loop"]
            /\ pidx' = 0
            /\ _update_thread' = "poll"
            /\ UNCHANGED second
       ELSE /\ second' = "run"
            /\ _update_thread' = "second"
            /\ UNCHANGED <<pc, pidx>>
    /\ clock' = 0
    /\ UNCHANGED <<wire, state, sock, op, ref, att, watt, lvl, exc, req, buf,
                   cycled, stale, bits_in_state, fieldLive, _on_change_callback,
                   notified, hubVars, daliVars, counterVars, channelVars,
                   pureVars, fieldVars>>

\* stop_continuous_update(): a live thread is held; clear the flag, join it
stop_continuous_update ==
    /\ pc["api"] = "idle"
    /\ HoldsLiveThread
    /\ _running' = FALSE
    /\ pc' = [pc EXCEPT !["api"] = "join"]
    /\ clock' = 0
    /\ UNCHANGED <<wire, state, sock, op, ref, att, watt, lvl, exc, req, buf,
                   cycled, stale, pidx, bits_in_state, fieldLive,
                   _on_change_callback, notified, hubVars, daliVars, moduleVars>>

\* join returned, in time or not: self._update_thread = None, stop returns
JoinDone ==
    /\ pc["api"] = "join"
    /\ IsAlive(_update_thread) => JoinExpired(clock)
    /\ _update_thread' = "none"
    /\ pc' = [pc EXCEPT !["api"] = "idle"]
    /\ UNCHANGED <<wire, state, sock, op, ref, att, watt, lvl, exc, req, buf,
                   cycled, stale, _running, pidx, bits_in_state, fieldLive,
                   clock, _on_change_callback, notified, hubVars, daliVars,
                   counterVars, channelVars, pureVars, second, timeVars,
                   fieldVars>>

\* the second thread at "while self._running": the flag is cleared, it ends
SecondEnds ==
    /\ second = "run"
    /\ ~_running
    /\ second' = "off"
    /\ UNCHANGED <<connVars, hubVars, daliVars, counterVars, channelVars,
                   pureVars, _update_thread, timeVars, fieldVars>>

NextStart ==
    \/ \E intervals \in IntervalArgs : start_continuous_update(intervals)
    \/ stop_continuous_update
    \/ JoinDone
    \/ SecondEnds
    \/ Tick
    \/ PollLoop
    \/ PollRefresh
    \/ PollSkip
    \/ PollAdvance
    \/ RefreshSend("poll")
    \/ RefreshRecv("poll")
    \/ RefreshAssign("poll")

SpecStart == InitConn /\ [][NextStart]_vars

-----------------------------------------------------------------------------
(* The claims about start and stop *)

\* the worker "poll" begins a tick: it found self._running set
BeginsTick == pc["poll"] = "loop" /\ pc'["poll"] = "check"

\* C29: after any sequence of start and stop calls at most one worker is
\* alive and polling: a start while a worker runs creates no second one, and
\* a worker that a timed-out stop left behind never begins a tick again
C29_OneWorker ==
    [][/\ BeginsTick => _update_thread = "poll"
       /\ (pc'["poll"] # "off" /\ second' # "off") => ~_running']_vars

-----------------------------------------------------------------------------
(* The worker's tick with its clock: which regions it refreshes *)

\* the time the model follows
MaxTime == 3

\* current_time - self._last_updates[r] >= self._update_intervals[r]
Due(r) == current_time - _last_updates[r] >= _update_intervals[r]

\* while self._running: current_time = time.time()
TickLoop ==
    /\ pc["poll"] = "loop"
    /\ IF _running
       THEN /\ pidx' = 1
            /\ pc' = [pc EXCEPT !["poll"] = "check"]
            /\ current_time' = now
       ELSE /\ pidx' = 0
            /\ pc' = [pc EXCEPT !["poll"] = "off"]
            /\ UNCHANGED current_time
    /\ UNCHANGED <<wire, state, sock, op, ref, att, watt, lvl, exc, req, buf,
                   cycled, stale, _running, bits_in_state, fieldLive, clock,
                   _on_change_callback, notified, hubVars, daliVars,
                   counterVars, channelVars, pureVars, threadObjVars, fieldVars,
                   now,
                   _last_updates, _update_intervals>>

\* the region's interval has elapsed: self.update_<region>_state()
TickRefresh == pc["poll"] = "check" /\ Due(RegionOrder[pidx]) /\ PollRefresh

\* the region's interval has not elapsed: the region is passed over
TickSkip == pc["poll"] = "check" /\ ~Due(RegionOrder[pidx]) /\ PollSkip

\* update_<region>_state() has returned: self._last_updates[r] =
\* current_time; on to the next region, after the last one sleep and loop
TickAdvance ==
    /\ pc["poll"] = "advance"
    /\ _last_updates' =
          IF ref["poll"] # NoRef
          THEN [_last_updates EXCEPT ![RegionOrder[pidx]] = current_time]
          ELSE _last_updates
    /\ IF pidx < Len(RegionOrder)
       THEN /\ pidx' = pidx + 1
            /\ pc' = [pc EXCEPT !["poll"] = "check"]
       ELSE /\ pidx' = 0
            /\ pc' = [pc EXCEPT !["poll"] = "loop"]
    /\ ref' = [ref EXCEPT !["poll"] = NoRef]
    /\ att' = [att EXCEPT !["poll"] = 0]
    /\ buf' = [buf EXCEPT !["poll"] = <<>>]
    /\ UNCHANGED <<wire, state, sock, op, watt, lvl, exc, req, cycled, stale,
                   _running, bits_in_state, fieldLive, clock,
                   _on_change_callback, notified, hubVars, daliVars,
                   counterVars, channelVars, pureVars, threadObjVars, fieldVars,
                   now,
                   current_time, _update_intervals>>

\* time passes while the worker sleeps or waits in a client call
Elapse ==
    /\ pc["poll"] \in {"loop", "rwait", "reconnect", "pause"}
    /\ now < MaxTime
    /\ now' = now + 1
    /\ UNCHANGED <<connVars, hubVars, daliVars, counterVars, channelVars,
                   pureVars, threadObjVars, fieldVars, current_time, _last_updates,
                   _update_intervals>>

\* a connection whose field and output image stay as they are
InitTick ==
    /\ wire = [holding |-> ImageTable(0), coil |-> ImageTable(FALSE)]
    /\ bits_in_state = ImageBits
    /\ state = ZeroState(ImageBits)
    /\ sock = "open"
    /\ fieldLive = FALSE
    /\ fieldWords = WordVals
    /\ ballast = NoBallast
    /\ ThreadsIdle
    /\ NoHub
    /\ present = {}

NextTick ==
    \/ \E intervals \in IntervalArgs : start_continuous_update(intervals)
    \/ TickLoop
    \/ TickRefresh
    \/ TickSkip
    \/ TickAdvance
    \/ PollPause
    \/ RefreshSend("poll")
    \/ RefreshRecv("poll")
    \/ RefreshAssign("poll")
    \/ RefreshFault("poll")
    \/ Reconnect("poll")
    \/ Elapse

SpecTick == InitTick /\ [][NextTick]_vars

-----------------------------------------------------------------------------
(* The claims about the tick *)

\* the worker leaves a tick: after its last region, or through the except
TickEnds == pc["poll"] \in {"advance", "pause"} /\ pc'["poll"] = "loop"

\* C30: in every tick each region is refreshed if and only if the time of
\* the tick minus its last refresh is at least its own interval, whatever
\* the other regions do; its last-refresh time advances only when its
\* refresh has returned, and at the end of a tick the only region still due
\* is one whose refresh failed in it
C30_PerRegionCadence ==
    [][/\ (pc["poll"] = "check" /\ pc'["poll"] # "check") =>
              (pc'["poll"] = "rsend" <=> Due(RegionOrder[pidx]))
       /\ \A r \in Spaces :
              (_last_updates'[r] # _last_updates[r] /\ pc["api"] = pc'["api"]
                    /\ pc["poll"] # "off") =>
                  /\ pc["poll"] = "advance"
                  /\ ref["poll"] # NoRef
                  /\ ref["poll"].space = r
       /\ TickEnds =>
              \A i \in DOMAIN RegionOrder :
                  current_time - _last_updates'[RegionOrder[i]]
                        >= _update_intervals[RegionOrder[i]]
                    => (pc["poll"] = "pause" /\ i = pidx)]_vars

-----------------------------------------------------------------------------
(* The DALI queries that merge several responses *)

\* get_groups / get_direct_address is called: one _read_command for each of
\* its command codes
QueryCall(method) ==
    /\ dpc = "idle"
    /\ dcall' = [method |-> method, arg |-> 0]
    /\ todo' = [i \in DOMAIN QueryMethods[method] |->
                  DaliOutputMessage(ShortAddress, QueryMethods[method][i],
                                    None, None, None)]
    /\ dpc' = "next"
    /\ UNCHANGED <<cycles, responses, holding641, input641, present, channel,
                   last, connVars, hubVars, moduleVars>>

\* get_groups: [i for bit, i in iterate_bits(first) if bit], extended by
\* [i for bit, i in iterate_bits(second) if bit]
get_groups(answers) ==
    BitList(answers[1].dali_response, 0) \o BitList(answers[2].dali_response, 0)

\* get_direct_address: high_byte << 24 | middle_byte << 16 | low_byte
get_direct_address(answers) ==
    LET high_byte == answers[1].dali_response
        middle_byte == answers[2].dali_response
        low_byte == answers[3].dali_response
    IN BitOr(BitOr(ShiftLeft(high_byte, 24), ShiftLeft(middle_byte, 16)), low_byte)

\* the membership words and address bytes of the ballast queried
GroupWords == {0, 1, 128, 256, 257, 33024}
AddressBytes == {0, 1, 127}

\* a DALI master and the ballast its channel stands for
InitQuery ==
    /\ wire = [holding |-> ImageTable(0), coil |-> ImageTable(FALSE)]
    /\ bits_in_state = ImageBits
    /\ state = ZeroState(ImageBits)
    /\ sock = "open"
    /\ fieldLive = TRUE
    /\ fieldWords = WordVals
    /\ pc = [t \in Threads |-> IF t = "api" THEN "idle" ELSE "off"]
    /\ op = [t \in Threads |-> NoOp]
    /\ ref = [t \in Threads |-> NoRef]
    /\ att = [t \in Threads |-> 0]
    /\ watt = [t \in Threads |-> 0]
    /\ lvl = [t \in Threads |-> "none"]
    /\ exc = [t \in Threads |-> "none"]
    /\ req = [t \in Threads |-> NoReq]
    /\ buf = [t \in Threads |-> <<>>]
    /\ cycled = [t \in Threads |-> TRUE]
    /\ stale = [t \in Threads |-> FALSE]
    /\ _running = FALSE
    /\ pidx = 0
    /\ clock = 0
    /\ _on_change_callback = FALSE
    /\ notified = <<>>
    /\ DaliIdle
    /\ ModulesIdle
    /\ NoHub
    /\ present = {ShortAddress}
    /\ ballast \in [groups : GroupWords, address : [1..3 -> AddressBytes]]

NextQuery ==
    \/ \E method \in DOMAIN QueryMethods : QueryCall(method)
    \/ Transmit
    \/ DaliReturn

SpecQuery == InitQuery /\ [][NextQuery]_vars

-----------------------------------------------------------------------------
(* The claims about the queries *)

\* a query method has all its responses and returns
QueryReturns(method) == dpc = "returned" /\ dcall.method = method /\ todo = <<>>

\* the groups of a 16-bit membership word: bit g stands for group g
GroupsOf(w) == {g \in 0..15 : (w \div 2^g) % 2 = 1}

\* C35: get_groups returns the group g in 0..15 if and only if bit g of the
\* membership word is set, the first response carrying bits 0..7 and the
\* second bits 8..15, and returns no group twice
C35_GroupsMerged ==
    QueryReturns("get_groups") =>
        LET groups == get_groups(responses) IN
        /\ Entries(groups) = GroupsOf(ballast.groups)
        /\ \A i \in DOMAIN groups : \A j \in DOMAIN groups :
              i # j => groups[i] # groups[j]

\* C36: get_direct_address returns high * 2^16 + middle * 2^8 + low of its
\* three responses, a value below 2^24
C36_AddressMerged ==
    QueryReturns("get_direct_address") =>
        /\ get_direct_address(responses)
              = responses[1].dali_response * 65536
                  + responses[2].dali_response * 256
                  + responses[3].dali_response
        /\ get_direct_address(responses) < 16777216

-----------------------------------------------------------------------------
(* Words: a slice of a Words and the changes of the Words it was taken of *)

\* the cells of the Words and of the values assigned
ViewSamples == {1, 65535}

\* the lists assigned: of no cell up to MaxLen cells
ViewVals == UNION {[0..(k - 1) -> ViewSamples] : k \in 0..MaxLen}

\* a slice index a:b as numpy reads it on n cells
Clamp(i, n) == IF i < n THEN i ELSE n

\* a __getitem__ that would hand out the cells in an array of its own
GetItemCopy(words, a, b) ==
    LET n == Cardinality(DOMAIN words)
        lo == Clamp(a, n)
        hi == IF Clamp(b, n) < lo THEN lo ELSE Clamp(b, n)
    IN [base |-> "own", lo |-> lo, hi |-> hi,
        cells |-> [i \in 0..(hi - lo - 1) |-> words[lo + i]]]

\* Words.__getitem__(slice): Words(self._words[index]); numpy's basic slice
\* is a view of the array, and __init__ keeps an ndarray as it is given
GetItemSlice(words, a, b) ==
    LET n == Cardinality(DOMAIN words)
        lo == Clamp(a, n)
        hi == IF Clamp(b, n) < lo THEN lo ELSE Clamp(b, n)
    IN [base |-> "parent", lo |-> lo, hi |-> hi, cells |-> <<>>]

\* Words.value of the slice: self._words.tolist()
SubsetValue ==
    IF subset.base = "parent"
    THEN [i \in 0..(subset.hi - subset.lo - 1) |-> _words[subset.lo + i]]
    ELSE subset.cells

\* what a call on the Words leaves alone
exceptCall == <<wire, bits_in_state, state, sock, ref, att, watt, lvl, req, buf,
                cycled, stale, _running, pidx, clock, _on_change_callback,
                notified, fieldLive, hubVars, daliVars, counterVars, channelVars,
                threadObjVars, timeVars, fieldVars>>

\* subset = words[a:b]
TakeSlice(a, b) ==
    /\ pc["api"] = "idle"
    /\ subset' = GetItemSlice(_words, a, b)
    /\ UNCHANGED <<pc, op, exc, _words, intval, ident, descriptor, exceptCall>>

\* words[a:b] = vals is called
CallSetItem(a, b, vals) ==
    /\ pc["api"] = "idle"
    /\ op' = [op EXCEPT !["api"] = [kind |-> "setitem", a |-> a, b |-> b, vals |-> vals]]
    /\ pc' = [pc EXCEPT !["api"] = "assign"]
    /\ UNCHANGED <<exc, pureVars, exceptCall>>

\* words.value = vals is called: self._words[...] = np.array(value)
CallSetValue(vals) ==
    /\ pc["api"] = "idle"
    /\ op' = [op EXCEPT !["api"] = [kind |-> "value", a |-> 0,
                                    b |-> Cardinality(DOMAIN _words), vals |-> vals]]
    /\ pc' = [pc EXCEPT !["api"] = "assign"]
    /\ UNCHANGED <<exc, pureVars, exceptCall>>

\* update_*_state on a cache that is this Words: the width cells of the
\* response go to self.state[...][address : address + width]
CallRefreshCells(a, vals) ==
    /\ pc["api"] = "idle"
    /\ Cardinality(DOMAIN vals) >= 1
    /\ a + Cardinality(DOMAIN vals) <= Cardinality(DOMAIN _words)
    /\ op' = [op EXCEPT !["api"] = [kind |-> "refresh", a |-> a,
                                    b |-> a + Cardinality(DOMAIN vals), vals |-> vals]]
    /\ pc' = [pc EXCEPT !["api"] = "assign"]
    /\ UNCHANGED <<exc, pureVars, exceptCall>>

\* the assignment in numpy: the cells are overwritten in place, or
\* ValueError is raised and no cell is changed
AssignCells ==
    /\ pc["api"] = "assign"
    /\ LET o == op["api"] IN
        IF Assignable(_words, o.a, o.b, o.vals)
        THEN /\ _words' = SetSlice(_words, o.a, o.b, o.vals)
             /\ pc' = [pc EXCEPT !["api"] = "done"]
             /\ exc' = exc
        ELSE /\ _words' = _words
             /\ pc' = [pc EXCEPT !["api"] = "error"]
             /\ exc' = [exc EXCEPT !["api"] = "ValueError"]
    /\ UNCHANGED <<op, intval, ident, descriptor, subset, exceptCall>>

\* Words(words) for every list of 1..MaxLen cells, no slice taken
InitView ==
    /\ wire = [holding |-> ImageTable(0), coil |-> ImageTable(FALSE)]
    /\ bits_in_state = ImageBits
    /\ state = ZeroState(ImageBits)
    /\ sock = "open"
    /\ fieldLive = TRUE
    /\ fieldWords = WordVals
    /\ ballast = NoBallast
    /\ pc = [t \in Threads |-> IF t = "api" THEN "idle" ELSE "off"]
    /\ op = [t \in Threads |-> NoOp]
    /\ ref = [t \in Threads |-> NoRef]
    /\ att = [t \in Threads |-> 0]
    /\ watt = [t \in Threads |-> 0]
    /\ lvl = [t \in Threads |-> "none"]
    /\ exc = [t \in Threads |-> "none"]
    /\ req = [t \in Threads |-> NoReq]
    /\ buf = [t \in Threads |-> <<>>]
    /\ cycled = [t \in Threads |-> TRUE]
    /\ stale = [t \in Threads |-> FALSE]
    /\ _running = FALSE
    /\ pidx = 0
    /\ clock = 0
    /\ _on_change_callback = FALSE
    /\ notified = <<>>
    /\ DaliIdle
    /\ DefaultTimes
    /\ FieldsIdle
    /\ CounterIdle
    /\ ChannelsIdle
    /\ NoThread
    /\ NoHub
    /\ present = {}
    /\ \E n \in 1..MaxLen : _words \in [0..(n - 1) -> ViewSamples]
    /\ intval = NoValue
    /\ subset = NoSubset
    /\ NoIdent

NextView ==
    \/ \E a \in 0..MaxLen, b \in 0..MaxLen : TakeSlice(a, b)
    \/ \E a \in 0..MaxLen, b \in 0..MaxLen, vals \in ViewVals : CallSetItem(a, b, vals)
    \/ \E vals \in ViewVals : CallSetValue(vals)
    \/ \E a \in 0..MaxLen, vals \in ViewVals : CallRefreshCells(a, vals)
    \/ AssignCells
    \/ Return

SpecView == InitView /\ [][NextView]_vars

\* the slice shows the cells the parent has now in the range it was taken of
ViewShows ==
    subset.base # "none" =>
        SubsetValue = [i \in 0..(subset.hi - subset.lo - 1) |-> _words[subset.lo + i]]

\* a words.value = vals of another length than the Words ends in ValueError
\* and changes no cell
MismatchFails ==
    (/\ pc["api"] = "assign"
     /\ pc'["api"] # "assign"
     /\ op["api"].kind = "value"
     /\ Cardinality(DOMAIN op["api"].vals) # Cardinality(DOMAIN _words)) =>
        /\ pc'["api"] = "error"
        /\ exc'["api"] = "ValueError"
        /\ _words' = _words
        /\ SubsetValue' = SubsetValue

\* C40: a slice taken of a Words is a live view: after every later slice
\* assignment, whole-value assignment of equal length and cache refresh of the
\* parent the slice shows the parent's cells of its range; and a whole-value
\* assignment of a different length fails and leaves the parent and the slice
\* as they were
C40_SliceIsLiveView == []ViewShows /\ [][MismatchFails]_vars

\* the first half of C40 alone: the slice is a view
C40_ViewOnly == ViewShows

\* a slice taken of two cells, then seen with the values a later assignment
\* gave the parent
C40_ViewChanged ==
    /\ pc["api"] = "done"
    /\ op["api"].kind = "setitem"
    /\ subset.base = "parent"
    /\ subset.hi - subset.lo = 2
    /\ SubsetValue = [i \in 0..1 |-> 65535]
    /\ \E i \in DOMAIN _words : _words[i] = 1

====
